---- MODULE Spec2Model ----
(***************************************************************************)
(* Model of the jsonnet-lsp analysis core: the document overlay            *)
(* (pkg/overlay/overlay.go), the parse function with AST recovery and the  *)
(* cached importer of the LSP server (package lsp).                        *)
(***************************************************************************)
EXTENDS Integers, Sequences, FiniteSets, TLC

(***************************************************************************)
(* Bounds of the model.                                                    *)
(***************************************************************************)
\* total number of events from outside: the Replace/Update/Close calls and
\* the reads of the client, the imports of the evaluator, the writes to disk
MaxCalls == 3
\* number of text edits carried by one delta Update
MaxEdits == 1

(***************************************************************************)
(* Inputs.                                                                 *)
(***************************************************************************)
\* uri.URI values of the documents the client edits
URIs == {"u1", "u2"}

\* The characters a client types.  "a" stands for an expression, "l" for a
\* local binding that needs a ';' and a body after it.
Char == {"a", "l"}

\* texts sent by DidOpen (Overlay.Replace)
ReplaceTexts == {<<"a">>, <<"l">>}

\* gotextdiff.TextEdit values sent by DidChange: an insertion of NewText at
\* the span 1:1-1:1 (the start of the document), valid for every text
TextEdits == {[NewText |-> <<c>>] : c \in Char}

\* the edit lists of one delta Update (empty: a no-op delta)
EditLists == UNION {[1..n -> TextEdits] : n \in 0..MaxEdits}

\* nil *Entry; entries are referred to by their index in the heap
Nil == 0
\* a nil ast.Node
NoAST == <<"noast">>
\* A nilable pointer or interface holding a value is a one-element sequence,
\* nil is the empty sequence.
None == <<>>
Some(x) == <<x>>

(***************************************************************************)
(* The external parser jsonnet.SnippetToAST, on the toy grammar            *)
(*     text ::= "a" | "l" ";" text | "a" "," text                          *)
(* An AST is represented by the text it was parsed from.                   *)
(***************************************************************************)
RECURSIVE Grammatical(_)
Grammatical(t) ==
    IF Len(t) = 0 THEN FALSE
    ELSE IF Len(t) = 1 THEN t[1] = "a"
    ELSE IF Len(t) = 2 THEN FALSE
    ELSE \/ t[1] = "l" /\ t[2] = ";" /\ Grammatical(SubSeq(t, 3, Len(t)))
         \/ t[1] = "a" /\ t[2] = "," /\ Grammatical(SubSeq(t, 3, Len(t)))

\* jsonnet.SnippetToAST(filename, contents): (root, err)
SnippetToAST(contents) ==
    IF Grammatical(contents)
    THEN [Root |-> contents, Err |-> FALSE]
    ELSE [Root |-> NoAST, Err |-> TRUE]

\* gotextdiff.ApplyEdits for one insertion at 1-based column col of a
\* single-line text
InsertAt(contents, col, txt) ==
    SubSeq(contents, 1, col - 1) \o txt \o SubSeq(contents, col, Len(contents))

\* gotextdiff.ApplyEdits(contents, edits) for insertions at 1:1: the new
\* texts are emitted in list order, then the old contents
RECURSIVE ApplyEdits(_, _)
ApplyEdits(contents, edits) ==
    IF Len(edits) = 0 THEN contents
    ELSE edits[1].NewText \o ApplyEdits(contents, Tail(edits))

\* tryRecoverAST: insert ';', else ',', right after the last inserted text
tryRecoverAST(contents, lastEdit) ==
    LET insertion == 1 + Len(lastEdit.NewText)
        withSemicol == InsertAt(contents, insertion, <<";">>)
        withComma == InsertAt(contents, insertion, <<",">>)
    IN  IF SnippetToAST(withSemicol).Root # NoAST
        THEN SnippetToAST(withSemicol).Root
        ELSE IF SnippetToAST(withComma).Root # NoAST
        THEN SnippetToAST(withComma).Root
        ELSE NoAST

\* the ParseFunc returned by parseJsonnetFn(uri): <<data, ok>>.
\* lastEdit is None on the Replace path.  The data is a *ParseResult.
parseJsonnetFn(contents, lastEdit) ==
    LET res == SnippetToAST(contents)
        root == IF res.Root = NoAST /\ lastEdit # None
                THEN tryRecoverAST(contents, lastEdit[1])
                ELSE res.Root
    IN  <<Some([Root |-> root, Err |-> res.Err]), root # NoAST>>

\* EmptyParseFunc: nil data, always ok
EmptyParseFunc(contents, lastEdit) == <<None, TRUE>>

\* the parse argument of Overlay.update, by the call that supplied it
ParseWith(parse, contents, lastEdit) ==
    IF parse = "jsonnet" THEN parseJsonnetFn(contents, lastEdit)
    ELSE EmptyParseFunc(contents, lastEdit)

(***************************************************************************)
(* State.                                                                  *)
(***************************************************************************)
VARIABLES
    updateQueue,  \* Overlay.updateQueue: URI -> sequence of fileUpdate
    files,        \* Overlay.files: the URIs that have an overlayFile
    updateLock,   \* overlayFile.updateLock: URI -> holding goroutine, 0 if free
    heap,         \* the Entry values allocated so far; an *Entry is an index
    current,      \* overlayFile.current: URI -> *Entry
    parsed,       \* overlayFile.parsed: URI -> *Entry
    gor,          \* the goroutines started by Overlay.update, in call order
    crashed,      \* the process was terminated by an unrecovered panic
    nver,         \* client: the last document version it sent, per URI
    ref,          \* client: its own document, per URI (the edits folded in issue order)
    closedUpTo,   \* history: the client version at the latest Close applied, per URI
    batches,      \* history: non-empty batches drained, per URI
    callbacks,    \* history: update callbacks invoked, per URI
    lastCb,       \* history: the current.Version handed to the latest callback, per URI
    lastOp,       \* history: what the latest iteration of applyFileUpdates did, per URI
    rd,           \* the goroutine of a request that calls Overlay.Current or Overlay.Parsed
    fs,           \* OverlayImporter.rootFS: the files on disk, per URI
    nwrites,      \* history: writes made to the files on disk
    imp,          \* the cachedImporter of the evaluator: foundAt, notFound, cache
    impLog,       \* history: the result of every cachedImporter.Import call
    realCalls,    \* history: calls made to the underlying importer, per (from, path)
    vm,           \* Server.vm: the *vmCache the server holds, Nil if none
    vmHeap,       \* the vmCache values allocated so far; a *vmCache is an index
    vmRet,        \* history: the latest Server.getVM call, its argument and its result
    published,    \* the latest PublishDiagnostics notification sent, per URI
    lastCharIsDot, \* Server.lastCharIsDot
    lastChange,   \* history: how the latest DidChange of each URI ended
    complLog,     \* history: the Completion requests answered, in order
    resolvers,    \* the valueResolver values made by Server.NewResolver
    lk,           \* the mutexes of the server and the goroutines that take them
    StdLibValue,  \* the Object of analysis.StdLibValue: Fields, FieldMap, Supers
    rootAST,      \* the root ast.Node of the document under analysis
    importAST,    \* what vmCache.ImportAST returns, per path: the root of the file, or None
    call          \* the latest call of an analysis function: its arguments and result

overlayVars == <<updateQueue, files, updateLock, heap, current, parsed, gor, crashed>>
clientVars == <<nver, ref>>
historyVars == <<closedUpTo, batches, callbacks, lastCb, lastOp>>
vmVars == <<vm, vmHeap, vmRet>>
pureVars == <<rootAST, importAST, call>>
sessionVars == <<lastCharIsDot, lastChange, complLog, resolvers, lk, StdLibValue>>
diagVars == <<published, sessionVars>>
analysisVars == <<vmVars, pureVars, diagVars>>
sideVars == <<rd, fs, nwrites, imp, impLog, realCalls, analysisVars>>
serverVars == <<overlayVars, clientVars, historyVars,
                rd, fs, nwrites, imp, impLog, realCalls, vmVars, diagVars>>
vars == <<updateQueue, files, updateLock, heap, current, parsed, gor, crashed,
          nver, ref, closedUpTo, batches, callbacks, lastCb, lastOp,
          rd, fs, nwrites, imp, impLog, realCalls, analysisVars>>

\* the import keys (from, path) the evaluator asks for: the first is
\* imported from the root directory, the second from the directory of u2
ImportKeys == {<<"main", "x">>, <<"d/main", "x">>}

\* the events from outside so far
Events == Len(gor) + rd.n + Len(impLog) + nwrites + Len(complLog) + Len(resolvers)

\* the client's document is closed
Absent == [Open |-> FALSE, Contents |-> <<>>, Version |-> 0]

\* StdlibFunctions: the names of the builtin functions, in the order of the list
StdlibFunctions == <<"endsWith", "all">>

\* initStdlib(fns): one field per function; FieldMap[name] points at the
\* field, here its index in Fields; no supers
initStdlib(fns) ==
    [Fields |-> fns,
     FieldMap |-> [n \in {fns[i] : i \in 1..Len(fns)} |->
                     CHOOSE i \in 1..Len(fns) : fns[i] = n],
     Supers |-> <<>>]

\* NewOverlay(): empty maps
InitServer ==
    /\ updateQueue = [u \in URIs |-> <<>>]
    /\ files = {}
    /\ updateLock = [u \in URIs |-> 0]
    /\ heap = <<>>
    /\ current = [u \in URIs |-> Nil]
    /\ parsed = [u \in URIs |-> Nil]
    /\ gor = <<>>
    /\ crashed = FALSE
    /\ nver = [u \in URIs |-> 0]
    /\ ref = [u \in URIs |-> Absent]
    /\ closedUpTo = [u \in URIs |-> 0]
    /\ batches = [u \in URIs |-> 0]
    /\ callbacks = [u \in URIs |-> 0]
    /\ lastCb = [u \in URIs |-> 0]
    /\ lastOp = [u \in URIs |-> "none"]
    /\ rd = [pc |-> "idle", URI |-> "u1", fn |-> "Current", res |-> Nil,
             snap |-> None, during |-> "none", n |-> 0, sent |-> None]
    /\ fs = [u \in URIs |-> Some(<<"a">>)]
    /\ nwrites = 0
    /\ imp = [foundAt |-> [k \in ImportKeys |-> ""],
              notFound |-> [k \in ImportKeys |-> FALSE],
              cache |-> [u \in URIs |-> None]]
    /\ impLog = <<>>
    /\ realCalls = [k \in ImportKeys |-> 0]
    /\ published = [u \in URIs |-> None]
    /\ lastCharIsDot = FALSE
    /\ lastChange = [u \in URIs |-> "none"]
    /\ complLog = <<>>
    /\ resolvers = <<>>
    /\ lk = [threads |-> <<>>, held |-> {}]
    /\ StdLibValue = initStdlib(StdlibFunctions)

\* a cachedImporter with empty notFound, foundAt and cache maps
EmptyImporter ==
    [foundAt |-> [k \in ImportKeys |-> ""],
     notFound |-> [k \in ImportKeys |-> FALSE],
     cache |-> [u \in URIs |-> None]]

\* NewServer: no evaluator yet
InitVM ==
    /\ vm = Nil
    /\ vmHeap = <<>>
    /\ vmRet = [n |-> 0, uri |-> "u1", ret |-> Nil]

\* no document under analysis
InitAnalysis ==
    /\ rootAST = [kind |-> "LiteralNull", id |-> "null", kids |-> <<>>, roles |-> <<>>,
                  names |-> <<>>, params |-> <<>>]
    /\ importAST = [f \in {"lib"} |-> None]
    /\ call = [fn |-> "none"]

Init ==
    /\ InitServer
    /\ InitVM
    /\ InitAnalysis


(***************************************************************************)
(* Overlay.update, synchronous part: enqueue, start the goroutine.         *)
(***************************************************************************)
\* the fileUpdate Close builds: no version is given, so Version is the zero value
CloseVersion == 0

\* Mark is history only: the client's version counter when the call was issued.
\* The fields of the Server are left to the handler that makes the call.
update(up, parse, done) ==
    /\ ~crashed
    /\ Events < MaxCalls
    /\ updateQueue' = [updateQueue EXCEPT ![up.URI] = Append(@, up)]
    /\ gor' = Append(gor, [URI |-> up.URI, parse |-> parse, done |-> done,
                           pc |-> "getFile", pending |-> <<>>])
    /\ UNCHANGED <<files, updateLock, heap, current, parsed, crashed>>
    /\ UNCHANGED historyVars
    /\ UNCHANGED <<rd, fs, nwrites, imp, impLog, realCalls, vmVars, pureVars, published>>

\* Overlay.Replace, as called by Server.DidOpen
Replace(u, version, data) ==
    /\ update([URI |-> u, Close |-> FALSE, Version |-> version,
               Replace |-> Some(data), Edits |-> <<>>, Mark |-> version],
              "jsonnet", "process")
    /\ nver' = [nver EXCEPT ![u] = version]
    /\ ref' = [ref EXCEPT ![u] = [Open |-> TRUE, Contents |-> data, Version |-> version]]
    /\ UNCHANGED sessionVars

\* Overlay.Update
OverlayUpdate(u, version, edits) ==
    /\ update([URI |-> u, Close |-> FALSE, Version |-> version,
               Replace |-> None, Edits |-> edits, Mark |-> version],
              "jsonnet", "process")
    /\ nver' = [nver EXCEPT ![u] = version]
    /\ ref' = [ref EXCEPT ![u] =
                 IF @.Open /\ version = @.Version + 1
                 THEN [Open |-> TRUE, Contents |-> ApplyEdits(@.Contents, edits),
                       Version |-> version]
                 ELSE @]

\* Overlay.Update with the fields of the Server left as they are
Update(u, version, edits) ==
    /\ OverlayUpdate(u, version, edits)
    /\ UNCHANGED sessionVars

\* Overlay.Close, as called by Server.DidClose
Close(u) ==
    /\ update([URI |-> u, Close |-> TRUE, Version |-> CloseVersion,
               Replace |-> None, Edits |-> <<>>, Mark |-> nver[u]],
              "empty", "noop")
    /\ ref' = [ref EXCEPT ![u] = Absent]
    /\ UNCHANGED nver
    /\ UNCHANGED sessionVars

(***************************************************************************)
(* Overlay.update, the goroutine.                                          *)
(***************************************************************************)
Goroutines == 1..Len(gor)

SetPc(g, pc) == [gor EXCEPT ![g].pc = pc]

\* o.getFile(u.URI): creates the overlayFile if it does not exist
getFile(g) ==
    /\ ~crashed
    /\ gor[g].pc = "getFile"
    /\ files' = files \cup {gor[g].URI}
    /\ gor' = SetPc(g, "lock")
    /\ UNCHANGED <<updateQueue, updateLock, heap, current, parsed, crashed>>
    /\ UNCHANGED clientVars
    /\ UNCHANGED sideVars
    /\ UNCHANGED historyVars

\* a lock that never excludes
MutexNeverHeld(holder) == TRUE

\* sync.Mutex: Lock() returns only when no goroutine holds the mutex
MutexFree(holder) == holder = 0

\* f.updateLock.Lock()
Lock(g) ==
    /\ ~crashed
    /\ gor[g].pc = "lock"
    /\ MutexFree(updateLock[gor[g].URI])
    /\ updateLock' = [updateLock EXCEPT ![gor[g].URI] = g]
    /\ gor' = SetPc(g, "drain")
    /\ UNCHANGED <<updateQueue, files, heap, current, parsed, crashed>>
    /\ UNCHANGED clientVars
    /\ UNCHANGED sideVars
    /\ UNCHANGED historyVars

\* the bijections of 1..n
Perms(n) == {p \in [1..n -> 1..n] : \A i, j \in 1..n : i # j => p[i] # p[j]}

\* sort.Slice(pending, less) with less(i, j) = pending[i].Version <
\* pending[j].Version: some permutation of pending in which no element is
\* less than an earlier one (the sort is not stable)
SortedByVersion(pending) ==
    {s \in {[i \in 1..Len(pending) |-> pending[p[i]]] : p \in Perms(Len(pending))} :
        \A i, j \in 1..Len(s) : i < j => ~(s[j].Version < s[i].Version)}

\* pending := o.updateQueue[u.URI]; delete(...); return if it is empty
\* (the deferred Unlock runs), else sort
Drain(g) ==
    LET u == gor[g].URI IN
    /\ ~crashed
    /\ gor[g].pc = "drain"
    /\ updateQueue' = [updateQueue EXCEPT ![u] = <<>>]
    /\ IF Len(updateQueue[u]) = 0
       THEN /\ gor' = SetPc(g, "ret")
            /\ updateLock' = [updateLock EXCEPT ![u] = 0]
            /\ UNCHANGED batches
       ELSE /\ \E s \in SortedByVersion(updateQueue[u]) :
                 gor' = [gor EXCEPT ![g].pc = "apply", ![g].pending = s]
            /\ UNCHANGED updateLock
            /\ batches' = [batches EXCEPT ![u] = @ + 1]
    /\ UNCHANGED <<files, heap, current, parsed, crashed>>
    /\ UNCHANGED clientVars
    /\ UNCHANGED sideVars
    /\ UNCHANGED <<closedUpTo, callbacks, lastCb, lastOp>>

\* the delta checks without the version check
DeltaInvariantNoVersion(cur, up) == cur # Nil

\* the two checks applyFileUpdates makes before a delta update
DeltaInvariant(cur, up) ==
    /\ cur # Nil
    /\ up.Version = heap[cur].Version + 1

\* parsedIsCurrent without the version comparison
parsedIsCurrentAnyVersion(cur, par) == par # Nil

\* parsedIsCurrent := ent.parsed != nil && ent.current.Version == ent.parsed.Version
parsedIsCurrent(cur, par) ==
    par # Nil /\ heap[cur].Version = heap[par].Version

\* the Entry a no-op delta builds from the current one
NoopEntry(cur, up) ==
    [Contents |-> heap[cur].Contents, Version |-> up.Version, Data |-> heap[cur].Data]

\* the update written into the Entry that current points to, instead of a new one
InstallInPlace(u, res, ok) ==
    IF current[u] = Nil
    THEN /\ heap' = Append(heap, res)
         /\ current' = [current EXCEPT ![u] = Len(heap) + 1]
         /\ parsed' = IF ok THEN [parsed EXCEPT ![u] = Len(heap) + 1] ELSE parsed
    ELSE /\ heap' = [heap EXCEPT ![current[u]] = res]
         /\ current' = current
         /\ parsed' = IF ok THEN [parsed EXCEPT ![u] = current[u]] ELSE parsed

\* res := &Entry{...}; ent.current = res; if ok { ent.parsed = res }
Install(u, res, ok) ==
    /\ heap' = Append(heap, res)
    /\ current' = [current EXCEPT ![u] = Len(heap) + 1]
    /\ parsed' = IF ok THEN [parsed EXCEPT ![u] = Len(heap) + 1] ELSE parsed

\* one iteration of the loop of applyFileUpdates
Apply(g) ==
    LET u == gor[g].URI
        up == Head(gor[g].pending)
    IN
    /\ ~crashed
    /\ gor[g].pc = "apply"
    /\ gor[g].pending # <<>>
    /\ IF up.Close
       THEN /\ current' = [current EXCEPT ![u] = Nil]
            /\ parsed' = [parsed EXCEPT ![u] = Nil]
            /\ gor' = [gor EXCEPT ![g].pending = Tail(@)]
            /\ closedUpTo' = [closedUpTo EXCEPT ![u] = IF up.Mark > @ THEN up.Mark ELSE @]
            /\ lastOp' = [lastOp EXCEPT ![u] = "close"]
            /\ UNCHANGED <<heap, updateLock>>
       ELSE IF up.Replace # None
       THEN /\ LET r == ParseWith(gor[g].parse, up.Replace[1], None)
               IN Install(u, [Contents |-> up.Replace[1], Version |-> up.Version,
                              Data |-> r[1]], r[2])
            /\ gor' = [gor EXCEPT ![g].pending = Tail(@)]
            /\ lastOp' = [lastOp EXCEPT ![u] = "replace"]
            /\ UNCHANGED <<closedUpTo, updateLock>>
       ELSE IF ~DeltaInvariant(current[u], up)
       THEN \* panic: the deferred f.updateLock.Unlock() runs, the rest of the
            \* batch is abandoned
            /\ gor' = SetPc(g, "panicked")
            /\ updateLock' = [updateLock EXCEPT ![u] = 0]
            /\ lastOp' = [lastOp EXCEPT ![u] = "panic"]
            /\ UNCHANGED <<heap, current, parsed, closedUpTo>>
       ELSE IF Len(up.Edits) = 0
       THEN /\ Install(u, NoopEntry(current[u], up),
                       parsedIsCurrent(current[u], parsed[u]))
            /\ gor' = [gor EXCEPT ![g].pending = Tail(@)]
            /\ lastOp' = [lastOp EXCEPT ![u] = "noop"]
            /\ UNCHANGED <<closedUpTo, updateLock>>
       ELSE /\ LET updated == ApplyEdits(heap[current[u]].Contents, up.Edits)
                   lastEdit == up.Edits[Len(up.Edits)]
                   r == ParseWith(gor[g].parse, updated, Some(lastEdit))
               IN Install(u, [Contents |-> updated, Version |-> up.Version,
                              Data |-> r[1]], r[2])
            /\ gor' = [gor EXCEPT ![g].pending = Tail(@)]
            /\ lastOp' = [lastOp EXCEPT ![u] = "delta"]
            /\ UNCHANGED <<closedUpTo, updateLock>>
    /\ UNCHANGED <<updateQueue, files, crashed>>
    /\ UNCHANGED clientVars
    /\ UNCHANGED sideVars
    /\ UNCHANGED <<batches, callbacks, lastCb>>

\* done(UpdateResult{Current: f.current, Parsed: f.parsed}) is entered
CallDone(g) ==
    LET u == gor[g].URI IN
    /\ ~crashed
    /\ gor[g].pc = "apply"
    /\ gor[g].pending = <<>>
    /\ gor' = SetPc(g, "done")
    /\ callbacks' = [callbacks EXCEPT ![u] = @ + 1]
    /\ lastCb' = [lastCb EXCEPT ![u] = IF current[u] # Nil
                                       THEN heap[current[u]].Version ELSE @]
    /\ UNCHANGED <<updateQueue, files, updateLock, heap, current, parsed, crashed>>
    /\ UNCHANGED clientVars
    /\ UNCHANGED sideVars
    /\ UNCHANGED <<closedUpTo, batches, lastOp>>

\* done returns; the deferred f.updateLock.Unlock() runs
Return(g) ==
    /\ ~crashed
    /\ gor[g].pc = "done"
    /\ gor' = SetPc(g, "ret")
    /\ updateLock' = [updateLock EXCEPT ![gor[g].URI] = 0]
    /\ UNCHANGED <<updateQueue, files, heap, current, parsed, crashed>>
    /\ UNCHANGED clientVars
    /\ UNCHANGED sideVars
    /\ UNCHANGED historyVars

\* the Go runtime ends the process after an unrecovered panic
ProcessExit ==
    /\ ~crashed
    /\ \E g \in Goroutines : gor[g].pc = "panicked"
    /\ crashed' = TRUE
    /\ UNCHANGED <<updateQueue, files, updateLock, heap, current, parsed, gor>>
    /\ UNCHANGED clientVars
    /\ UNCHANGED sideVars
    /\ UNCHANGED historyVars

(***************************************************************************)
(* The specification of the overlay.                                       *)
(***************************************************************************)
\* the client sends strictly increasing versions; a delta may skip one
Next ==
    \/ \E u \in URIs, t \in ReplaceTexts : Replace(u, nver[u] + 1, t)
    \/ \E u \in URIs, d \in 1..2, e \in EditLists : Update(u, nver[u] + d, e)
    \/ \E u \in URIs : Close(u)
    \/ \E g \in Goroutines : getFile(g)
    \/ \E g \in Goroutines : Lock(g)
    \/ \E g \in Goroutines : Drain(g)
    \/ \E g \in Goroutines : Apply(g)
    \/ \E g \in Goroutines : CallDone(g)
    \/ \E g \in Goroutines : Return(g)
    \/ ProcessExit

Spec == Init /\ [][Next]_vars

(***************************************************************************)
(* Overlay.Current and Overlay.Parsed, called by a request's goroutine.    *)
(***************************************************************************)
\* o.fileLock.Lock(); ent := o.files[u]; o.fileLock.Unlock(); nil if absent.
\* sent is history: what the client had issued for u when the read started.
ReadFile(u, fn) ==
    /\ ~crashed
    /\ Events < MaxCalls
    /\ rd.pc # "entry"
    /\ rd' = [pc |-> IF u \in files THEN "entry" ELSE "got", URI |-> u, fn |-> fn,
              res |-> Nil, snap |-> None, during |-> "none", n |-> rd.n + 1,
              sent |-> Some([nver |-> nver[u], ref |-> ref[u]])]
    /\ UNCHANGED <<overlayVars, clientVars, historyVars>>
    /\ UNCHANGED <<fs, nwrites, imp, impLog, realCalls, analysisVars>>

\* ent.entryLock.Lock(); defer ent.entryLock.Unlock(); return ent.current
\* (ent.parsed).  snap and during are history: the Entry as it was read, and
\* what the holder of the file's updateLock was doing at that moment.
ReadEntry ==
    LET u == rd.URI
        e == IF rd.fn = "Current" THEN current[u] ELSE parsed[u]
    IN
    /\ ~crashed
    /\ rd.pc = "entry"
    /\ rd' = [rd EXCEPT !.pc = "got", !.res = e,
                        !.snap = IF e = Nil THEN None ELSE Some(heap[e]),
                        !.during = IF updateLock[u] = 0 THEN "none"
                                   ELSE gor[updateLock[u]].pc]
    /\ UNCHANGED <<overlayVars, clientVars, historyVars>>
    /\ UNCHANGED <<fs, nwrites, imp, impLog, realCalls, analysisVars>>

NextRd ==
    \/ Next
    \/ \E u \in URIs, fn \in {"Current", "Parsed"} : ReadFile(u, fn)
    \/ ReadEntry

SpecRd == Init /\ [][NextRd]_vars

(***************************************************************************)
(* OverlayImporter and cachedImporter.                                     *)
(* The file u1 is <root>/x and the file u2 is <root>/d/x.                  *)
(***************************************************************************)
\* Overlay.Parsed(uri), in one step
OverlayParsed(u) == IF u \in files THEN parsed[u] ELSE Nil

\* OverlayImporter.readURI: the parsed overlay entry first, then the disk;
\* None is an error
readURI(u) ==
    IF OverlayParsed(u) # Nil
    THEN Some(heap[OverlayParsed(u)].Contents)
    ELSE fs[u]

\* candidates := [root/path, root/fromPath/path] (no search paths configured)
Candidates(key) ==
    IF key[1] = "main" THEN <<"u1", "u1">> ELSE <<"u1", "u2">>

\* OverlayImporter.Import: the first candidate that can be read
OverlayImport(key) ==
    LET c == Candidates(key)
        hits == {i \in 1..Len(c) : readURI(c[i]) # None}
    IN  IF hits = {}
        THEN [contents |-> None, foundAt |-> "", err |-> TRUE]
        ELSE LET i == CHOOSE h \in hits : \A h2 \in hits : h <= h2
             IN  [contents |-> readURI(c[i]), foundAt |-> c[i], err |-> FALSE]

\* the cache overwritten by every successful import
CacheOverwrite(cache, foundAt, contents) ==
    [cache EXCEPT ![foundAt] = contents]

\* if _, ok := imp.cache[foundAt]; !ok { imp.cache[foundAt] = contents }
CacheStore(cache, foundAt, contents) ==
    IF cache[foundAt] = None THEN [cache EXCEPT ![foundAt] = contents] ELSE cache

\* cachedImporter.Import(from, path), under imp.lock
Import(key) ==
    /\ ~crashed
    /\ Events < MaxCalls
    /\ IF imp.foundAt[key] # ""
       THEN /\ impLog' = Append(impLog, [key |-> key, contents |-> imp.cache[imp.foundAt[key]],
                                         foundAt |-> imp.foundAt[key], err |-> FALSE])
            /\ UNCHANGED <<imp, realCalls>>
       ELSE IF imp.notFound[key]
       THEN /\ impLog' = Append(impLog, [key |-> key, contents |-> None,
                                         foundAt |-> "", err |-> TRUE])
            /\ UNCHANGED <<imp, realCalls>>
       ELSE LET r == OverlayImport(key) IN
            /\ realCalls' = [realCalls EXCEPT ![key] = @ + 1]
            /\ IF r.err
               THEN /\ imp' = [imp EXCEPT !.notFound[key] = TRUE]
                    /\ impLog' = Append(impLog, [key |-> key, contents |-> r.contents,
                                                 foundAt |-> r.foundAt, err |-> TRUE])
               ELSE LET cache == CacheStore(imp.cache, r.foundAt, r.contents) IN
                    /\ imp' = [imp EXCEPT !.foundAt[key] = r.foundAt, !.cache = cache]
                    /\ impLog' = Append(impLog, [key |-> key, contents |-> cache[r.foundAt],
                                                 foundAt |-> r.foundAt, err |-> FALSE])
    /\ UNCHANGED <<overlayVars, clientVars, historyVars>>
    /\ UNCHANGED <<rd, fs, nwrites, analysisVars>>

\* another program writes or deletes a file on disk
FsWrite(u, c) ==
    /\ ~crashed
    /\ Events < MaxCalls
    /\ c # fs[u]
    /\ fs' = [fs EXCEPT ![u] = c]
    /\ nwrites' = nwrites + 1
    /\ UNCHANGED <<overlayVars, clientVars, historyVars>>
    /\ UNCHANGED <<rd, imp, impLog, realCalls, analysisVars>>

NextImp ==
    \/ Next
    \/ \E k \in ImportKeys : Import(k)
    \/ \E u \in URIs, c \in {None, Some(<<"a">>), Some(<<"l">>)} : FsWrite(u, c)

SpecImp == Init /\ [][NextImp]_vars

(***************************************************************************)
(* Claims about the overlay.                                               *)
(***************************************************************************)
\* every edit queued for u has been applied
Processed(u) ==
    /\ updateQueue[u] = <<>>
    /\ \A g \in Goroutines :
          gor[g].URI = u => gor[g].pending = <<>> /\ gor[g].pc # "panicked"

\* the step is an iteration of applyFileUpdates by g
AppliesHead(g) ==
    /\ gor[g].pc = "apply"
    /\ gor[g].pending # <<>>
    /\ gor'[g] # gor[g]

IsDelta(up) == ~up.Close /\ up.Replace = None

\* C1: once all queued edits of a URI have been processed, current holds the
\* text and version obtained by folding the client's edits in the order of
\* their versions (the order they were issued in), and is absent if the last
\* of them was a Close.
C1_CurrentIsFoldOfEdits ==
    \A u \in URIs :
        Processed(u) =>
            IF ref[u].Open
            THEN /\ current[u] # Nil
                 /\ heap[current[u]].Contents = ref[u].Contents
                 /\ heap[current[u]].Version = ref[u].Version
            ELSE current[u] = Nil

\* a text that parses, as it is or after one remedial insertion
Parseable(t) ==
    \/ Grammatical(t)
    \/ \E col \in 1..(Len(t) + 1), c \in {";", ","} : Grammatical(InsertAt(t, col, <<c>>))

\* C2: when a URI has both a current and a parsed entry, parsed.version <=
\* current.version and the text of parsed is one that parsed successfully.
C2_ParsedBehindCurrentAndParseable ==
    \A u \in URIs :
        current[u] # Nil /\ parsed[u] # Nil =>
            /\ heap[parsed[u]].Version <= heap[current[u]].Version
            /\ Parseable(heap[parsed[u]].Contents)

\* C3: a parsed entry always carries parse data with a non-null AST root.
C3_ParsedHasAST ==
    \A u \in URIs :
        parsed[u] # Nil =>
            /\ heap[parsed[u]].Data # None
            /\ heap[parsed[u]].Data[1].Root # NoAST

\* C4: a delta is applied only when current is present and its version is
\* current.version + 1, and then current.version grows by exactly one; a
\* delta failing the check changes neither current nor parsed.
C4_DeltaStrictVersionOrder ==
    [][\A g \in Goroutines :
          AppliesHead(g) /\ IsDelta(Head(gor[g].pending)) =>
            LET u == gor[g].URI
                up == Head(gor[g].pending)
            IN  IF current[u] # Nil /\ up.Version = heap[current[u]].Version + 1
                THEN /\ current'[u] # Nil
                     /\ heap'[current'[u]].Version = heap[current[u]].Version + 1
                ELSE /\ current' = current
                     /\ parsed' = parsed
                     /\ heap' = heap]_vars

\* a delta was applied on top of a replace, and a later delta with a version
\* gap was refused
C4_Witness ==
    \E g \in Goroutines :
        /\ gor[g].pc = "panicked"
        /\ current[gor[g].URI] # Nil
        /\ Len(heap[current[gor[g].URI]].Contents) = 2
        /\ Head(gor[g].pending).Version > heap[current[gor[g].URI]].Version + 1

\* C5: once a Close has been applied, an entry is present only if it comes
\* from an edit issued after that Close.
C5_ClosedStaysAbsent ==
    \A u \in URIs :
        /\ current[u] # Nil => heap[current[u]].Version > closedUpTo[u]
        /\ parsed[u] # Nil => heap[parsed[u]].Version > closedUpTo[u]

\* the goroutines of u that hold a drained batch or run its callback
InBatch(u, pcs) == {g \in Goroutines : gor[g].URI = u /\ gor[g].pc \in pcs}

C6_Inv ==
    \A u \in URIs :
        /\ Cardinality(InBatch(u, {"drain", "apply", "done"})) <= 1
        /\ \A g \in InBatch(u, {"done"}) : updateLock[u] = g
        /\ batches[u] = callbacks[u] + Cardinality(InBatch(u, {"apply", "panicked"}))

C7_NoopDeltaBumpsVersion ==
    [][\A g \in Goroutines :
          LET u == gor[g].URI
              up == Head(gor[g].pending)
          IN  (/\ AppliesHead(g)
               /\ IsDelta(up)
               /\ Len(up.Edits) = 0
               /\ current[u] # Nil
               /\ up.Version = heap[current[u]].Version + 1) =>
                  /\ current'[u] # Nil
                  /\ heap'[current'[u]] = [Contents |-> heap[current[u]].Contents,
                                           Version |-> up.Version,
                                           Data |-> heap[current[u]].Data]
                  /\ parsed'[u] = IF parsed[u] = current[u]
                                  THEN current'[u] ELSE parsed[u]]_vars

\* a no-op delta has bumped the version while parsed was an older entry
C7_Witness ==
    \E u \in URIs :
        /\ lastOp[u] = "noop"
        /\ parsed[u] # Nil
        /\ current[u] # Nil
        /\ heap[parsed[u]].Version + 2 = heap[current[u]].Version

\* C8: a delta with no current entry or with a version gap drops the entry
\* of its file and leaves the server running.
C8_FaultContained ==
    /\ ~crashed
    /\ \A u \in URIs :
          lastOp[u] = "panic" => current[u] = Nil /\ parsed[u] = Nil

(***************************************************************************)
(* Claims about the readers and the importer.                              *)
(***************************************************************************)
\* C9: a reader that has found the file is never kept waiting, whatever the
\* holder of the file's update lock is doing, and the entry a reader was
\* handed is never changed afterwards.
C9_ReadersNeverBlock ==
    /\ (~crashed /\ rd.pc = "entry") => ENABLED ReadEntry
    /\ (rd.pc = "got" /\ rd.res # Nil) => heap[rd.res] = rd.snap[1]

\* a reader got the current entry while a writer of the URI was applying
\* its batch or running its callback, and current has been replaced since
C9_Witness ==
    /\ rd.pc = "got"
    /\ rd.fn = "Current"
    /\ rd.res # Nil
    /\ rd.during \in {"apply", "done"}
    /\ current[rd.URI] # rd.res
    /\ current[rd.URI] # Nil

\* C10: within one cachedImporter, two imports of the same (from, path)
\* return the same contents and filename, two imports found at the same
\* filename return the same contents, and the underlying importer is called
\* at most once per (from, path).
C10_ImportsStable ==
    /\ \A i, j \in 1..Len(impLog) :
          /\ impLog[i].key = impLog[j].key => impLog[i] = impLog[j]
          /\ (~impLog[i].err /\ ~impLog[j].err /\ impLog[i].foundAt = impLog[j].foundAt)
                => impLog[i].contents = impLog[j].contents
    /\ \A k \in ImportKeys : realCalls[k] <= 1

\* two different (from, path) were found at the same file, whose contents
\* had changed between the two imports
C10_Witness ==
    \E i, j \in 1..Len(impLog) :
        /\ i < j
        /\ impLog[i].key # impLog[j].key
        /\ ~impLog[i].err /\ ~impLog[j].err
        /\ impLog[i].foundAt = impLog[j].foundAt
        /\ readURI(impLog[j].foundAt) # impLog[j].contents


(***************************************************************************)
(* Server.getVM: the evaluator the server keeps for the file in focus.     *)
(***************************************************************************)
MaxVMs == 3
MaxGetVM == 4

\* the cache is kept whatever file it was made for
AnyVMIsCurrent(u) == vm # Nil

\* if s.vm != nil && uri == s.vm.from
VMIsCurrent(u) == vm # Nil /\ vmHeap[vm].from = u

\* Server.getVM(uri), under s.vmlock
getVM(u) ==
    /\ vmRet.n < MaxGetVM
    /\ IF VMIsCurrent(u)
       THEN /\ vmRet' = [n |-> vmRet.n + 1, uri |-> u, ret |-> vm]
            /\ UNCHANGED <<vm, vmHeap>>
       ELSE /\ Len(vmHeap) < MaxVMs
            /\ vmHeap' = Append(vmHeap, [from |-> u, imp |-> EmptyImporter])
            /\ vm' = Len(vmHeap) + 1
            /\ vmRet' = [n |-> vmRet.n + 1, uri |-> u, ret |-> Len(vmHeap) + 1]
    /\ UNCHANGED <<overlayVars, clientVars, historyVars>>
    /\ UNCHANGED <<rd, fs, nwrites, imp, impLog, realCalls, pureVars, diagVars>>

\* cachedImporter.Import(from, path) on the importer im: the importer after it
cachedImport(im, key) ==
    IF im.foundAt[key] # "" \/ im.notFound[key]
    THEN im
    ELSE LET r == OverlayImport(key) IN
         IF r.err
         THEN [im EXCEPT !.notFound[key] = TRUE]
         ELSE [im EXCEPT !.foundAt[key] = r.foundAt,
                         !.cache = CacheStore(im.cache, r.foundAt, r.contents)]

\* vmCache.Use / vmCache.ImportAST on a cache some caller got from getVM
vmImportAST(v, key) ==
    /\ v \in 1..Len(vmHeap)
    /\ vmHeap' = [vmHeap EXCEPT ![v].imp = cachedImport(@, key)]
    /\ vmHeap' # vmHeap
    /\ UNCHANGED <<vm, vmRet>>
    /\ UNCHANGED <<overlayVars, clientVars, historyVars>>
    /\ UNCHANGED <<rd, fs, nwrites, imp, impLog, realCalls, pureVars, diagVars>>

NextVM ==
    \/ \E u \in URIs : getVM(u)
    \/ \E v \in 1..MaxVMs, k \in ImportKeys : vmImportAST(v, k)

SpecVM == Init /\ [][NextVM]_vars

\* C11: the server holds one evaluator cache; every getVM(uri) call returns
\* the cache the server holds afterwards, bound to uri: the one it held
\* already, untouched, when that was bound to uri, and otherwise a newly
\* allocated one whose import cache is empty, which replaces the old one.
C11_GetVMBoundToURI ==
    [][vmRet'.n # vmRet.n =>
         LET u == vmRet'.uri
             r == vmRet'.ret
         IN  /\ r \in 1..Len(vmHeap')
             /\ vm' = r
             /\ vmHeap'[r].from = u
             /\ IF vm # Nil /\ vmHeap[vm].from = u
                THEN r = vm /\ vmHeap' = vmHeap
                ELSE /\ r = Len(vmHeap) + 1
                     /\ vmHeap'[r].imp = EmptyImporter
                     /\ SubSeq(vmHeap', 1, Len(vmHeap)) = vmHeap]_vars

\* getVM has replaced a cache that had imports by an empty one for another file
C11_Witness ==
    /\ Len(vmHeap) = 2
    /\ vm = 2
    /\ vmRet.ret = 2
    /\ vmHeap[1].imp # EmptyImporter
    /\ vmHeap[2].imp = EmptyImporter
    /\ vmHeap[2].from # vmHeap[1].from

(***************************************************************************)
(* The desugared AST that jsonnet.SnippetToAST returns.                    *)
(* A node is a record: its kind, its identifier or literal (id), its child *)
(* expressions in source order (kids), what each child is to the node      *)
(* (roles), the name that goes with each child (names: the variable of a   *)
(* bind, the name of a parameter or of a named argument) and, for a        *)
(* function, its parameters.  An ast.Node pointer is the path of child     *)
(* indexes from the root to the node.                                      *)
(***************************************************************************)
Leaf(kind, id) ==
    [kind |-> kind, id |-> id, kids |-> <<>>, roles |-> <<>>, names |-> <<>>,
     params |-> <<>>]

Inner(kind, id, kids, roles, names) ==
    [kind |-> kind, id |-> id, kids |-> kids, roles |-> roles, names |-> names,
     params |-> <<>>]

astVar(x) == Leaf("Var", x)
astLiteralNumber == Leaf("LiteralNumber", "1")
astLiteralString(s) == Leaf("LiteralString", s)
astLiteralNull == Leaf("LiteralNull", "null")
astImport(path) == Leaf("Import", path)

astUnary(op, e) == Inner("Unary", op, <<e>>, <<"expr">>, <<"">>)
astBinary(op, l, r) == Inner("Binary", op, <<l, r>>, <<"left", "right">>, <<"", "">>)
astIndex(t, i) == Inner("Index", "", <<t, i>>, <<"target", "index">>, <<"", "">>)
astArray(elems) ==
    Inner("Array", "", elems, [i \in 1..Len(elems) |-> "elem"],
          [i \in 1..Len(elems) |-> ""])
astError(e) == Inner("Error", "", <<e>>, <<"expr">>, <<"">>)

\* local x = b; e
astLocal(x, b, e) == Inner("Local", "", <<b, e>>, <<"bind", "body">>, <<x, "">>)

\* local x = b, y = c; e
astLocal2(x, b, y, c, e) ==
    Inner("Local", "", <<b, c, e>>, <<"bind", "bind", "body">>, <<x, y, "">>)

\* target(positional..., name=named...)
astApply(target, positional, namedNames, named) ==
    Inner("Apply", "", <<target>> \o positional \o named,
          <<"target">> \o [i \in 1..Len(positional) |-> "arg"]
                       \o [i \in 1..Len(named) |-> "named"],
          <<"">> \o [i \in 1..Len(positional) |-> ""] \o namedNames)

\* { [name]: body }
astDesugaredObject(name, body) ==
    Inner("DesugaredObject", "", <<name, body>>, <<"fieldname", "fieldbody">>,
          <<"", "">>)

\* a parameter: its name, the type of its /*:type*/ comment, and the index
\* among the kids of its default argument, 0 if it has none
astParameter(name, type, def) == [name |-> name, type |-> type, def |-> def]

\* function(params) body; defaults are the default arguments in order
astFunction(params, defaults, body) ==
    [kind |-> "Function", id |-> "", kids |-> defaults \o <<body>>,
     roles |-> [i \in 1..Len(defaults) |-> "default"] \o <<"body">>,
     names |-> [i \in 1..Len(defaults) |->
                  (CHOOSE p \in {params[j] : j \in 1..Len(params)} : p.def = i).name]
               \o <<"">>,
     params |-> params]

\* the node at a path
RECURSIVE NodeAt(_, _)
NodeAt(t, path) ==
    IF path = <<>> THEN t ELSE NodeAt(t.kids[Head(path)], Tail(path))

\* every node of the tree, as paths
RECURSIVE Paths(_)
Paths(t) ==
    {<<>>} \cup UNION {{<<i>> \o p : p \in Paths(t.kids[i])} : i \in 1..Len(t.kids)}

\* the stack of a node: its ancestors from the root, then the node
StackOf(path) == [i \in 1..(Len(path) + 1) |-> SubSeq(path, 1, i - 1)]

\* p is an ancestor of q, or q itself
IsPrefix(p, q) == Len(p) <= Len(q) /\ SubSeq(q, 1, Len(p)) = p

(***************************************************************************)
(* Locations.  The parser gives every node the range of its text, the end  *)
(* being the column after its last character; the text is on one line and  *)
(* every token is one column wide.                                         *)
(***************************************************************************)
\* the tokens of a node before its first child
HeadWidth(t) ==
    CASE t.kind \in {"Unary", "Local", "Function", "Array", "DesugaredObject",
                     "Conditional", "Error"} -> 1
      [] t.kids = <<>> -> 1
      [] OTHER -> 0

\* the tokens of a node after its last child
TailWidth(t) ==
    CASE t.kind \in {"Apply", "Array", "DesugaredObject"} -> 1
      [] t.kind = "Index" /\ t.kids[2].kind # "LiteralString" -> 1
      [] OTHER -> 0

RECURSIVE Width(_)
Width(t) ==
    LET RECURSIVE sum(_)
        sum(i) == IF i = 0 THEN 0 ELSE Width(t.kids[i]) + sum(i - 1)
        n == Len(t.kids)
    IN  HeadWidth(t) + sum(n) + (IF n > 1 THEN n - 1 ELSE 0) + TailWidth(t)

\* the first column of child c of a node that begins at column b
KidBegin(t, b, c) ==
    LET RECURSIVE sum(_)
        sum(i) == IF i = 0 THEN 0 ELSE Width(t.kids[i]) + 1 + sum(i - 1)
    IN  b + HeadWidth(t) + sum(c - 1)

\* node.Loc().Begin.Column of the node at a path, the root beginning at column 1
RECURSIVE BeginOf(_, _, _)
BeginOf(t, b, path) ==
    IF path = <<>> THEN b
    ELSE BeginOf(t.kids[Head(path)], KidBegin(t, b, Head(path)), Tail(path))

\* node.Loc(): begin and end column
Loc(root, path) ==
    LET b == BeginOf(root, 1, path)
    IN  [Begin |-> b, End |-> b + Width(NodeAt(root, path))]

(***************************************************************************)
(* analysis.walkStack                                                      *)
(***************************************************************************)
Indexes(n) == [i \in 1..n |-> i]

\* the children of a node in a role, in source order
RoleKids(t, role) ==
    SelectSeq(Indexes(Len(t.kids)), LAMBDA i : t.roles[i] = role)

\* the children walkStack recurses into, by the type switch on the node
walkChildren(t) ==
    CASE t.kind = "Apply" ->
            RoleKids(t, "target") \o RoleKids(t, "arg") \o RoleKids(t, "named")
      [] t.kind = "Array" -> RoleKids(t, "elem")
      [] t.kind = "Binary" -> RoleKids(t, "left") \o RoleKids(t, "right")
      [] t.kind = "Conditional" ->
            RoleKids(t, "cond") \o RoleKids(t, "then") \o RoleKids(t, "else")
      [] t.kind = "Error" -> RoleKids(t, "expr")
      [] t.kind = "Function" -> RoleKids(t, "body")
      [] t.kind = "InSuper" -> RoleKids(t, "index")
      [] t.kind = "SuperIndex" -> RoleKids(t, "index")
      [] t.kind = "Index" -> RoleKids(t, "target") \o RoleKids(t, "index")
      [] t.kind = "Local" -> RoleKids(t, "bind") \o RoleKids(t, "body")
      [] t.kind = "DesugaredObject" ->
            RoleKids(t, "local") \o RoleKids(t, "fieldbody") \o RoleKids(t, "assert")
      [] t.kind = "Unary" -> RoleKids(t, "expr")
      [] OTHER -> <<>>

\* walkStack(node, stk, fn) for a visitor that returns false at the nodes of
\* prune: the calls made to the visitor, in order, each with its stack
RECURSIVE walkStack(_, _, _, _)
walkStack(root, path, stk, prune) ==
    LET stk2 == Append(stk, path)
        t == NodeAt(root, path)
        ch == walkChildren(t)
        RECURSIVE rest(_)
        rest(i) ==
            IF i > Len(ch) THEN <<>>
            ELSE walkStack(root, Append(path, ch[i]), stk2, prune) \o rest(i + 1)
    IN  IF path \in prune
        THEN <<[node |-> path, stk |-> stk2]>>
        ELSE <<[node |-> path, stk |-> stk2]>> \o rest(1)

\* WalkStack(node, fn)
WalkStack(root, prune) == walkStack(root, <<>>, <<>>, prune)

(***************************************************************************)
(* analysis.StackAtLoc and analysis.StackAtNode                            *)
(***************************************************************************)
\* an ast.Location; the text is on line 1
Location(col) == [Line |-> 1, Column |-> col]

\* node.Loc() as an ast.LocationRange
LocRange(rt, path) ==
    [Begin |-> Location(Loc(rt, path).Begin), End |-> Location(Loc(rt, path).End)]

\* locInNode(n, pos)
locInNode(rt, path, pos) ==
    LET start == LocRange(rt, path).Begin
        end == LocRange(rt, path).End
    IN  IF pos.Line < start.Line \/ pos.Line > end.Line THEN FALSE
        ELSE IF pos.Line = start.Line /\ pos.Column < start.Column THEN FALSE
        ELSE IF pos.Line = end.Line /\ pos.Column > end.Column THEN FALSE
        ELSE TRUE

\* the visitor of StackAtLoc over the calls made to it: res is replaced by a
\* copy of the stack of every call that is strictly deeper
RECURSIVE deepestStack(_, _, _)
deepestStack(visits, i, res) ==
    IF i > Len(visits) THEN res
    ELSE deepestStack(visits, i + 1,
                      IF Len(visits[i].stk) > Len(res) THEN visits[i].stk ELSE res)

\* StackAtLoc(root, loc): the visitor returns false where loc is not in the node
StackAtLoc(rt, loc) ==
    LET outside == {p \in Paths(rt) : ~locInNode(rt, p, loc)}
        visits == WalkStack(rt, outside)
        inside == SelectSeq(visits, LAMBDA v : v.node \notin outside)
    IN  deepestStack(inside, 1, <<>>)

\* StackAtNode(root, find): loc := find.Loc().End
StackAtNode(rt, find) == StackAtLoc(rt, LocRange(rt, find).End)

(***************************************************************************)
(* The walker applied to the documents of a bounded set.                   *)
(***************************************************************************)
WalkLeaves == {astVar("x"), astLiteralNumber}

\* the trees with one inner node over the given children
TreesOver(A, B) ==
    {astUnary("-", a) : a \in A}
    \cup {astBinary("+", a, b) : a \in A, b \in B}
    \cup {astIndex(a, b) : a \in A, b \in B}
    \cup {astArray(<<a, b>>) : a \in A, b \in B}
    \cup {astLocal("x", a, b) : a \in A, b \in B}
    \cup {astApply(a, <<b>>, <<>>, <<>>) : a \in A, b \in B}
    \cup {astApply(a, <<>>, <<"x">>, <<b>>) : a \in A, b \in B}
    \cup {astDesugaredObject(a, b) : a \in A \cup {astLiteralString("f")}, b \in B}
    \cup {astFunction(<<astParameter("x", "any", 0)>>, <<>>, a) : a \in A}
    \cup {astFunction(<<astParameter("x", "any", 1)>>, <<a>>, b) : a \in A, b \in B}
    \cup {astError(a) : a \in A}

WalkTrees ==
    WalkLeaves \cup TreesOver(WalkLeaves, WalkLeaves)
    \cup TreesOver(TreesOver(WalkLeaves, WalkLeaves), WalkLeaves)
    \cup TreesOver(WalkLeaves, TreesOver(WalkLeaves, WalkLeaves))

InitWalk ==
    /\ InitServer
    /\ InitVM
    /\ rootAST \in WalkTrees
    /\ importAST = [f \in {"lib"} |-> None]
    /\ call = [fn |-> "none"]

\* WalkStack(rootAST, fn) with a visitor that returns false at one node, or at none
RunWalkStack(prune) ==
    /\ call' = [fn |-> "WalkStack", prune |-> prune, res |-> WalkStack(rootAST, prune)]
    /\ UNCHANGED <<serverVars, rootAST, importAST>>

RunStackAtLoc(col) ==
    /\ call' = [fn |-> "StackAtLoc", loc |-> Location(col),
                res |-> StackAtLoc(rootAST, Location(col))]
    /\ UNCHANGED <<serverVars, rootAST, importAST>>

RunStackAtNode(find) ==
    /\ call' = [fn |-> "StackAtNode", find |-> find, res |-> StackAtNode(rootAST, find)]
    /\ UNCHANGED <<serverVars, rootAST, importAST>>

NextWalk ==
    \/ RunWalkStack({})
    \/ \E p \in Paths(rootAST) : RunWalkStack({p})
    \/ \E col \in 0..(Width(rootAST) + 2) : RunStackAtLoc(col)
    \/ \E p \in Paths(rootAST) : RunStackAtNode(p)

SpecWalk == InitWalk /\ [][NextWalk]_vars

\* the calls made to the visitor for the node at a path
VisitsOf(visits, p) == {i \in 1..Len(visits) : visits[i].node = p}

\* the visitor returned false at a proper ancestor of the node
UnderPruned(prune, p) == \E q \in prune : q # p /\ IsPrefix(q, p)

\* C19: WalkStack calls the visitor exactly once for every child expression of
\* every node of the tree, except under a node where the visitor returned
\* false, where it makes no call; the stack of each call is the stack of the
\* parent followed by the node, as long as the node is deep.
C19_WalkVisitsEveryChildOnce ==
    call.fn = "WalkStack" =>
        /\ \A p \in Paths(rootAST) :
              Cardinality(VisitsOf(call.res, p))
                  = (IF UnderPruned(call.prune, p) THEN 0 ELSE 1)
        /\ \A i \in 1..Len(call.res) :
              /\ call.res[i].stk = StackOf(call.res[i].node)
              /\ Len(call.res[i].stk) = Len(call.res[i].node) + 1

\* the nodes whose range contains a location
Containing(rt, loc) == {p \in Paths(rt) : locInNode(rt, p, loc)}

\* C20: StackAtLoc returns the stack of a deepest node among those whose
\* range contains loc (the empty stack if there is none), and StackAtNode
\* returns the stack of the node it was asked for.
C20_StackAtLocDeepestAtNodeExact ==
    /\ call.fn = "StackAtLoc" =>
          IF Containing(rootAST, call.loc) = {}
          THEN call.res = <<>>
          ELSE \E p \in Containing(rootAST, call.loc) :
                  /\ call.res = StackOf(p)
                  /\ \A q \in Containing(rootAST, call.loc) : Len(q) <= Len(p)
    /\ call.fn = "StackAtNode" => call.res = StackOf(call.find)

(***************************************************************************)
(* analysis.NodeToValue and the resolver it asks for variables and imports.*)
(* A node of any file is a reference: the file and the path in its tree.   *)
(* The document is the file "main".  A string is a sequence of characters. *)
(***************************************************************************)
\* var maxStackDepth = 300; the cap is scaled down here, the steps of the
\* recursion being the same at every depth
maxStackDepth == 4

Ref(file, path) == [file |-> file, path |-> path]

\* r.roots[filename]
FileRoot(file) == IF file = "main" THEN rootAST ELSE importAST[file][1]

RefNode(nref) == NodeAt(FileRoot(nref.file), nref.path)

Kid(nref, i) == Ref(nref.file, Append(nref.path, i))

\* valueResolver.Import(from, path): the file imported, None if the import fails
resolverImport(path) ==
    IF path = "main" THEN Some("main")
    ELSE IF path \in DOMAIN importAST /\ importAST[path] # None THEN Some(path)
    ELSE None

\* knownApply: calls of the intrinsic functions that desugaring introduces
knownApply(t) ==
    LET targ == t.kids[1] IN
    IF targ.kind = "Index" /\ targ.kids[1].kind = "Var"
       /\ targ.kids[2].kind = "LiteralString" /\ targ.kids[1].id = "$std"
    THEN CASE targ.kids[2].id = "$objectFlatMerge" -> <<"object", TRUE>>
           [] targ.kids[2].id = "flatMap" -> <<"array", TRUE>>
           [] targ.kids[2].id = "mod" -> <<"string", TRUE>>
           [] OTHER -> <<"any", FALSE>>
    ELSE <<"any", FALSE>>

\* binopKnownTypes
binopKnownTypes(op) ==
    CASE op \in {"&&", ">", ">=", "in", "<", "<=", "==", "!="} -> Some("boolean")
      [] op = "%" -> Some("string")
      [] OTHER -> None

\* simpleToValueType(node): the type and whether the node is a leaf value
simpleToValueType(t) ==
    CASE t.kind = "LiteralNull" -> <<"null", TRUE>>
      [] t.kind \in {"ImportStr", "ImportBin"} -> <<"string", TRUE>>
      [] t.kind = "Apply" -> knownApply(t)
      [] t.kind = "Binary" ->
            IF binopKnownTypes(t.id) # None
            THEN <<binopKnownTypes(t.id)[1], TRUE>> ELSE <<"any", FALSE>>
      [] t.kind = "LiteralBoolean" -> <<"boolean", FALSE>>
      [] t.kind = "LiteralNumber" -> <<"number", FALSE>>
      [] t.kind = "LiteralString" -> <<"string", FALSE>>
      [] t.kind = "Array" -> <<"array", FALSE>>
      [] t.kind = "DesugaredObject" -> <<"object", FALSE>>
      [] t.kind = "Function" -> <<"function", FALSE>>
      [] OTHER -> <<"any", FALSE>>

\* StdLibFunctions: the functions of std that the documents call
StdLibFunctions ==
    [n \in {"endsWith", "all"} |->
        IF n = "endsWith"
        THEN [Params |-> <<[Name |-> "a", Type |-> "string", Default |-> None],
                           [Name |-> "b", Type |-> "string", Default |-> None]>>,
              Return |-> None, ReturnType |-> "boolean"]
        ELSE [Params |-> <<[Name |-> "arr", Type |-> "array", Default |-> None]>>,
              Return |-> None, ReturnType |-> "boolean"]]

\* a Value; Range is the node whose range it is, None if the range is not
\* set; peak and diverged are history: the deepest nesting of nodeToValue
\* calls while it was computed, and whether the computation recursed into a
\* call it was already inside of with the same arguments (and so never returns)
Value(type, node) ==
    [Type |-> type, Node |-> node, Range |-> node, StringValue |-> None,
     Object |-> None, Function |-> None, IsStd |-> FALSE, diverged |-> FALSE,
     peak |-> 0]

\* defaultToValue(node)
defaultToValue(nref) == Value(simpleToValueType(RefNode(nref))[1], Some(nref))

\* unwindLocals(root, locs): the node that gives the value of the file
RECURSIVE unwindLocals(_)
unwindLocals(nref) ==
    LET t == RefNode(nref) IN
    CASE t.kind = "Local" -> unwindLocals(Kid(nref, RoleKids(t, "body")[1]))
      [] t.kind = "Conditional" /\ t.kids[3].kind = "Error" -> unwindLocals(Kid(nref, 2))
      [] OTHER -> nref

\* StackVars(stk).Get(name) below the final assignment of "$": the bindings of
\* later stack entries replace those of earlier ones; None if there is no
\* variable of that name, else its Node (None for a parameter without
\* default) and its StackPos
RECURSIVE stackVarsFind(_, _, _, _)
stackVarsFind(file, stk, name, pos) ==
    IF pos = 0
    THEN IF name = "std" THEN Some([Node |-> None, StackPos |-> 0]) ELSE None
    ELSE LET nref == Ref(file, stk[pos])
             t == RefNode(nref)
             binds == SelectSeq(RoleKids(t, "bind") \o RoleKids(t, "local"),
                                LAMBDA i : t.names[i] = name)
             ps == SelectSeq(t.params, LAMBDA p : p.name = name)
         IN  IF t.kind = "DesugaredObject" /\ name = "self"
             THEN Some([Node |-> Some(nref), StackPos |-> 0])
             ELSE IF t.kind \in {"Local", "DesugaredObject"} /\ binds # <<>>
             THEN Some([Node |-> Some(Kid(nref, binds[Len(binds)])), StackPos |-> pos - 1])
             ELSE IF t.kind = "Function" /\ ps # <<>>
             THEN Some([Node |-> IF ps[Len(ps)].def = 0 THEN None
                                 ELSE Some(Kid(nref, ps[Len(ps)].def)),
                        StackPos |-> pos - 1])
             ELSE stackVarsFind(file, stk, name, pos - 1)

\* StackVars(stk).Get(name) for a stack of nodes of one file; "$" is the
\* first object of the stack
stackVarsGet(file, stk, name) ==
    LET objs == SelectSeq(stk, LAMBDA p : RefNode(Ref(file, p)).kind = "DesugaredObject")
    IN  IF name = "$" /\ objs # <<>>
        THEN Some([Node |-> Some(Ref(file, objs[1])), StackPos |-> 1])
        ELSE stackVarsFind(file, stk, name, Len(stk))

\* valueResolver.Vars(from).Get(name): stk := StackAtNode(root, from)
resolverVarsGet(from, name) ==
    LET stk == StackAtNode(FileRoot(from.file), from.path)
    IN  stackVarsGet(from.file, stk, name)

\* functionToValue(node)
functionToValue(nref) ==
    LET t == RefNode(nref)
        ret == unwindLocals(Kid(nref, RoleKids(t, "body")[1]))
    IN  [Value("function", Some(nref)) EXCEPT
            !.Function = Some([Params |-> [i \in 1..Len(t.params) |->
                                   [Name |-> t.params[i].name,
                                    Type |-> t.params[i].type,
                                    Default |-> IF t.params[i].def = 0 THEN None
                                                ELSE Some(Kid(nref, t.params[i].def))]],
                               Return |-> Some(ret),
                               ReturnType |-> simpleToValueType(RefNode(ret))[1]])]

\* Object.FieldMap[name]: the last field of that name, None if there is none
FieldMapGet(obj, name) ==
    LET hits == SelectSeq(obj.Fields, LAMBDA f : f.Name = name)
    IN  IF hits = <<>> THEN None ELSE Some(hits[Len(hits)])

\* mergeObjectValues(lhs, rhs): the fields of lhs that rhs has not, then rhs's
mergeObjectValues(lhs, rhs) ==
    LET lo == lhs.Object[1]
        ro == rhs.Object[1]
    IN  [Value("object", rhs.Node) EXCEPT
            !.Object = Some([Fields |-> SelectSeq(lo.Fields,
                                            LAMBDA f : FieldMapGet(ro, f.Name) = None
                                                       /\ FieldMapGet(lo, f.Name) = Some(f))
                                        \o SelectSeq(ro.Fields,
                                            LAMBDA f : FieldMapGet(ro, f.Name) = Some(f)),
                             AllFieldsKnown |-> lo.AllFieldsKnown /\ ro.AllFieldsKnown])]

Max(a, b) == IF a >= b THEN a ELSE b

\* the value v returned by a call at the end of chain that made the calls subs
Returned(v, chain, subs) ==
    LET RECURSIVE peakOf(_)
        peakOf(i) == IF i = 0 THEN Len(chain) ELSE Max(subs[i].peak, peakOf(i - 1))
    IN  [v EXCEPT !.diverged = \E i \in 1..Len(subs) : subs[i].diverged,
                  !.peak = peakOf(Len(subs))]

\* nodeToValue(node, resolver, stackDepth).  active is history: the calls of
\* nodeToValue this call is nested in, each with its node and stackDepth.
\* objectToValue and importToValue are written out where they are called:
\* both call NodeToValue, which starts nodeToValue again with stackDepth 0.
RECURSIVE nodeToValue(_, _, _)
nodeToValue(node, stackDepth, active) ==
    LET t == RefNode(node)
        here == <<node, stackDepth>>
        chain == Append(active, here)
        dflt == defaultToValue(node)
        sub(n) == nodeToValue(n, stackDepth + 1, chain)
        NodeToValueIn(n) == nodeToValue(n, 0, chain)
        \* objectToValue: the fields from field number i on
        RECURSIVE fields(_)
        fields(i) ==
            LET names == RoleKids(t, "fieldname")
                bodies == RoleKids(t, "fieldbody")
            IN  IF i > Len(names) THEN [Fields |-> <<>>, unknown |-> FALSE, subs |-> <<>>]
                ELSE LET nm == t.kids[names[i]]
                         body == Kid(node, bodies[i])
                         ov == IF nm.kind = "LiteralString" THEN <<>>
                               ELSE <<NodeToValueIn(Kid(node, names[i]))>>
                         known == nm.kind = "LiteralString" \/ ov[1].StringValue # None
                         fieldName == IF nm.kind = "LiteralString" THEN <<nm.id>>
                                      ELSE ov[1].StringValue[1]
                         more == fields(i + 1)
                     IN  IF ov # <<>> /\ ov[1].diverged
                         THEN [Fields |-> <<>>, unknown |-> TRUE, subs |-> ov]
                         ELSE IF ~known
                         THEN [more EXCEPT !.unknown = TRUE, !.subs = ov \o @]
                         ELSE [more EXCEPT
                                  !.Fields = <<[Name |-> fieldName,
                                                Type |-> simpleToValueType(RefNode(body))[1],
                                                Node |-> body]>> \o @,
                                  !.subs = ov \o @]
    IN
    IF \E i \in 1..Len(active) : active[i] = here
    THEN [Value("any", None) EXCEPT !.diverged = TRUE, !.peak = Len(chain)]
    ELSE IF stackDepth > maxStackDepth THEN Returned(dflt, chain, <<>>)
    ELSE IF simpleToValueType(t)[2] THEN Returned(dflt, chain, <<>>)
    ELSE CASE t.kind = "Array" -> Returned(Value("array", Some(node)), chain, <<>>)
      [] t.kind = "LiteralString" ->
            Returned([Value("string", Some(node)) EXCEPT !.StringValue = Some(<<t.id>>)],
                     chain, <<>>)
      [] t.kind = "LiteralNumber" -> Returned(Value("number", Some(node)), chain, <<>>)
      [] t.kind = "LiteralBoolean" -> Returned(Value("boolean", Some(node)), chain, <<>>)
      [] t.kind = "Local" ->
            LET r == sub(Kid(node, RoleKids(t, "body")[1])) IN Returned(r, chain, <<r>>)
      [] t.kind = "Var" ->
            IF t.id = "std"
            THEN Returned([Value("object", None) EXCEPT !.IsStd = TRUE], chain, <<>>)
            ELSE IF t.id = "$std" THEN Returned(dflt, chain, <<>>)
            ELSE LET v == resolverVarsGet(node, t.id) IN
                 IF v # None /\ v[1].Node # None
                 THEN LET r == sub(v[1].Node[1]) IN Returned(r, chain, <<r>>)
                 ELSE Returned(dflt, chain, <<>>)
      [] t.kind = "Apply" ->
            LET targfn == sub(Kid(node, 1)) IN
            IF targfn.diverged \/ targfn.Function = None
               \/ targfn.Function[1].Return = None
            THEN Returned(dflt, chain, <<targfn>>)
            ELSE LET r == sub(targfn.Function[1].Return[1])
                 IN  Returned(r, chain, <<targfn, r>>)
      [] t.kind = "Index" /\ t.kids[2].kind = "LiteralNumber" ->
            LET target == sub(Kid(node, 1))
                idxInt == IF t.kids[2].id = "0" THEN 0 ELSE 1
                isArr == target.Node # None /\ RefNode(target.Node[1]).kind = "Array"
            IN  IF target.diverged \/ ~isArr
                   \/ idxInt >= Len(RefNode(target.Node[1]).kids)
                THEN Returned(dflt, chain, <<target>>)
                ELSE LET r == sub(Kid(target.Node[1], idxInt + 1))
                     IN  Returned(r, chain, <<target, r>>)
      [] t.kind = "Index" /\ t.kids[2].kind = "LiteralString" ->
            LET lhs == sub(Kid(node, 1))
                fld == IF lhs.Object = None THEN None
                       ELSE FieldMapGet(lhs.Object[1], <<t.kids[2].id>>)
            IN  IF lhs.diverged THEN Returned(dflt, chain, <<lhs>>)
                ELSE IF lhs.IsStd
                THEN IF t.kids[2].id \in DOMAIN StdLibFunctions
                     THEN Returned([Value("function", None) EXCEPT
                                       !.Function = Some(StdLibFunctions[t.kids[2].id])],
                                   chain, <<lhs>>)
                     ELSE Returned(dflt, chain, <<lhs>>)
                ELSE IF fld # None
                THEN LET r == sub(fld[1].Node) IN Returned(r, chain, <<lhs, r>>)
                ELSE Returned(dflt, chain, <<lhs>>)
      [] t.kind = "Binary" /\ t.id = "+" ->
            LET lhs == sub(Kid(node, 1))
                rhs == IF lhs.diverged THEN lhs ELSE sub(Kid(node, 2))
            IN  IF lhs.diverged \/ rhs.diverged THEN Returned(dflt, chain, <<lhs, rhs>>)
                ELSE IF lhs.Object # None /\ rhs.Object # None
                THEN Returned(mergeObjectValues(lhs, rhs), chain, <<lhs, rhs>>)
                ELSE IF lhs.StringValue # None /\ rhs.StringValue # None
                THEN Returned([Value("string", Some(node)) EXCEPT
                                  !.StringValue = Some(lhs.StringValue[1] \o rhs.StringValue[1])],
                              chain, <<lhs, rhs>>)
                ELSE Returned(dflt, chain, <<lhs, rhs>>)
      [] t.kind = "DesugaredObject" ->
            LET flds == fields(1) IN
            Returned([Value("object", Some(node)) EXCEPT
                         !.Object = Some([Fields |-> flds.Fields,
                                          AllFieldsKnown |-> ~flds.unknown])],
                     chain, flds.subs)
      [] t.kind = "Function" -> Returned(functionToValue(node), chain, <<>>)
      [] t.kind = "Import" ->
            LET imported == resolverImport(t.id) IN
            IF imported # None
            THEN LET r == NodeToValueIn(unwindLocals(Ref(imported[1], <<>>)))
                 IN  Returned(r, chain, <<r>>)
            ELSE Returned([Value("any", None) EXCEPT !.Range = Some(node)], chain, <<>>)
      [] OTHER -> Returned(dflt, chain, <<>>)

\* NodeToValue(node, resolver)
NodeToValue(node) == nodeToValue(node, 0, <<>>)

(***************************************************************************)
(* NodeToValue applied to the nodes of the documents of a bounded set.     *)
(***************************************************************************)
\* expressions in the scope of a local x
ValueLeaves ==
    {astVar("x"), astLiteralNumber, astLiteralString("f"), astImport("main"),
     astImport("lib")}

ValueExprs ==
    ValueLeaves
    \cup {astIndex(astVar("x"), astLiteralString("f")),
          astIndex(astVar("x"), astLiteralNumber),
          astBinary("+", astVar("x"), astLiteralString("f")),
          astArray(<<astVar("x")>>),
          astApply(astVar("x"), <<>>, <<>>, <<>>),
          astFunction(<<astParameter("y", "any", 0)>>, <<>>, astVar("x"))}
    \cup {astDesugaredObject(n, astLiteralNumber) :
            n \in {astLiteralString("f"), astVar("x"),
                   astIndex(astVar("x"), astLiteralString("f"))}}

\* local x = b; e
ValueTrees == {astLocal("x", b, e) : b \in ValueExprs, e \in ValueExprs}

\* the file lib, if there is one
LibTrees == {astLiteralNumber, astImport("main"), astImport("lib")}

InitValue ==
    /\ InitServer
    /\ InitVM
    /\ rootAST \in ValueTrees
    /\ importAST \in [{"lib"} -> {None} \cup {Some(t) : t \in LibTrees}]
    /\ call = [fn |-> "none"]

\* NodeToValue(node, resolver) for a node of the document
RunNodeToValue(path) ==
    /\ call' = [fn |-> "NodeToValue", node |-> path,
                res |-> NodeToValue(Ref("main", path))]
    /\ UNCHANGED <<serverVars, rootAST, importAST>>

NextValue == \E p \in Paths(rootAST) : RunNodeToValue(p)

SpecValue == InitValue /\ [][NextValue]_vars

\* C12: every call of NodeToValue returns, and the calls of nodeToValue nested
\* in one another while it runs never number more than the cap allows
\* (stackDepth 0 to maxStackDepth, and the call that finds the cap exceeded).
C12_NodeToValueTerminates ==
    call.fn = "NodeToValue" =>
        /\ ~call.res.diverged
        /\ call.res.peak <= maxStackDepth + 2

(***************************************************************************)
(* linter.LintAST                                                          *)
(* A message is the text before its first argument and its arguments.      *)
(***************************************************************************)
\* the value v under a name in F: a local variable of the source
With(v, F(_)) == F(v)

\* posToProto / rangeToProto
posToProto(p) ==
    [Line |-> IF p.Line > 0 THEN p.Line - 1 ELSE p.Line,
     Character |-> IF p.Column > 0 THEN p.Column - 1 ELSE p.Column]

rangeToProto(r) == [Start |-> posToProto(r.Begin), End |-> posToProto(r.End)]

\* the ast.LocationRange of a Value.Range or of a node; all zero if not set
RefRange(r) ==
    IF r = None
    THEN [Begin |-> [Line |-> 0, Column |-> 0], End |-> [Line |-> 0, Column |-> 0]]
    ELSE LocRange(FileRoot(r[1].file), r[1].path)

\* b.LocRange of the bind whose body is child i: from its variable to the end
\* of its body
BindLocRange(nref, i) ==
    [Begin |-> Location(LocRange(FileRoot(nref.file), Append(nref.path, i)).Begin.Column - 1),
     End |-> LocRange(FileRoot(nref.file), Append(nref.path, i)).End]

Diagnostic(range, code, severity, fmt, args) ==
    [Range |-> rangeToProto(range), Code |-> code, Severity |-> severity,
     Message |-> [fmt |-> fmt, args |-> args]]

\* diags[i].Message < diags[j].Message: the messages as the text before the
\* first argument and the arguments, compared through the place of each in
\* the string order of the texts (Formats) and of the arguments (Vocabulary)
MessageLess(m1, m2) ==
    LET Formats ==
            <<"+ operator cannot add different types",
              "< operator cannot compare different types",
              "calling non-function type", "cannot index array with type",
              "cannot index object with type", "cannot index string with type",
              "cannot index type", "duplicate named argument",
              "equal comparison is never true for different types",
              "expected boolean for operand of binary operator",
              "expected number for lhs of operator",
              "expected number for operand of binary operator",
              "expected number for rhs of operator",
              "expected number, array, or string for lhs of operator",
              "expected number, array, or string for rhs of operator",
              "import not found:", "mismatched argument type for",
              "not equal comparison is always true for different types",
              "object has no field", "too few arguments in function call",
              "too many arguments in function call", "unknown named argument",
              "unused local variable">>
        Vocabulary ==
            <<"!", "$", "*", "+", "-", "0", "1", "2", "3", "4", "<", "==", "a", "any",
              "arr", "array", "b", "boolean", "f", "function", "g", "lib", "main", "null",
              "number", "object", "string", "x", "y">>
        rank(seq, s) == CHOOSE i \in 1..Len(seq) : seq[i] = s
        key(m) == <<rank(Formats, m.fmt)>>
                      \o [i \in 1..Len(m.args) |-> rank(Vocabulary, m.args[i])]
        RECURSIVE less(_, _)
        less(k1, k2) ==
            IF k2 = <<>> THEN FALSE
            ELSE IF k1 = <<>> THEN TRUE
            ELSE IF Head(k1) # Head(k2) THEN Head(k1) < Head(k2)
            ELSE less(Tail(k1), Tail(k2))
    IN  less(key(m1), key(m2))

\* the less function of sortDiags
diagLess(a, b) ==
    IF a.Range.Start.Line # b.Range.Start.Line
    THEN a.Range.Start.Line < b.Range.Start.Line
    ELSE IF a.Range.Start.Character # b.Range.Start.Character
    THEN a.Range.Start.Character < b.Range.Start.Character
    ELSE IF a.Range.End.Line # b.Range.End.Line
    THEN a.Range.End.Line < b.Range.End.Line
    ELSE IF a.Range.End.Character # b.Range.End.Character
    THEN a.Range.End.Character < b.Range.End.Character
    ELSE MessageLess(a.Message, b.Message)

\* the slice is returned as it is
unsortedDiags(diags) == {diags}

\* sortDiags(diags): sort.Slice is not stable; every arrangement of diags in
\* which no element is less than an earlier one
RECURSIVE sortDiags(_)
sortDiags(diags) ==
    IF diags = <<>> THEN {<<>>}
    ELSE LET n == Len(diags)
             least == {i \in 1..n : \A j \in 1..n : ~diagLess(diags[j], diags[i])}
             without(i) == SubSeq(diags, 1, i - 1) \o SubSeq(diags, i + 1, n)
         IN  UNION {{<<diags[i]>> \o r : r \in sortDiags(without(i))} : i \in least}

\* the orders in which a range over a Go map can yield the keys of S
RECURSIVE MapOrders(_)
MapOrders(S) ==
    IF S = {} THEN {<<>>}
    ELSE UNION {{<<x>> \o r : r \in MapOrders(S \ {x})} : x \in S}

\* findVarbindInStack(v, stack): the innermost node of the stack that binds v
RECURSIVE findVarbindInStack(_, _, _)
findVarbindInStack(v, stack, i) ==
    IF i = 0 THEN None
    ELSE LET t == NodeAt(rootAST, stack[i])
             binds == RoleKids(t, "bind") \o RoleKids(t, "local")
         IN  IF \/ /\ t.kind \in {"Local", "DesugaredObject"}
                   /\ \E k \in 1..Len(binds) : t.names[binds[k]] = v
                \/ /\ t.kind = "Function"
                   /\ \E k \in 1..Len(t.params) : t.params[k].name = v
             THEN Some([def |-> stack[i], name |-> v])
             ELSE findVarbindInStack(v, stack, i - 1)

\* paramsByName[name] after the loop that stores &param for every parameter:
\* the loop variable is one variable (go 1.19), so every entry points to the
\* parameter stored last
paramsByName(params, name) ==
    IF \E i \in 1..Len(params) : params[i].Name = name
    THEN Some(params[Len(params)]) ELSE None

\* checkFunctionCall(fn, call, resolver); argValue[i] is what
\* analysis.NodeToValue(arg, resolver) gives for child i of the call
checkFunctionCall(fn, apply, argValue) ==
    LET t == RefNode(apply)
        rng == RefRange(Some(apply))
        positional == RoleKids(t, "arg")
        named == RoleKids(t, "named")
        nargs == Len(named) + Len(positional)
        digit(n) == <<"0", "1", "2", "3", "4">>[n + 1]
        seen(k) == \E j \in 1..(k - 1) : t.names[named[j]] = t.names[named[k]]
        dupSimple ==
            IF fn.Function # None THEN <<>>
            ELSE [k \in 1..Len(SelectSeq(Indexes(Len(named)), seen)) |->
                     Diagnostic(rng, "ArgumentCardinality", "Warning",
                                "duplicate named argument", <<>>)]
        params == fn.Function[1].Params
        nparam == Len(params)
        minArgs == Len(SelectSeq(params, LAMBDA p : p.Default = None))
        tooMany ==
            IF nargs > nparam
            THEN <<Diagnostic(rng, "ArgumentCardinality", "Error",
                              "too many arguments in function apply",
                              <<digit(nargs), digit(nparam)>>)>>
            ELSE <<>>
        tooFew ==
            IF nargs < minArgs
            THEN <<Diagnostic(rng, "ArgumentCardinality", "Error",
                              "too few arguments in function apply",
                              <<digit(nargs), digit(minArgs)>>)>>
            ELSE <<>>
        mismatch(param, argVal) ==
            Diagnostic(rng, "TypeMismatch", "Warning", "mismatched argument type for",
                       <<param.Name, param.Type, argVal.Type>>)
        \* the positional arguments from number k on
        RECURSIVE pos(_)
        pos(k) ==
            IF k > Len(positional) \/ k > nparam
            THEN [diags |-> <<>>, diverged |-> FALSE]
            ELSE IF params[k].Type = "any" THEN pos(k + 1)
            ELSE With(argValue[positional[k]], LAMBDA argVal :
                    IF argVal.diverged THEN [diags |-> <<>>, diverged |-> TRUE]
                    ELSE IF argVal.Type = "any" \/ params[k].Type = argVal.Type
                    THEN pos(k + 1)
                    ELSE [pos(k + 1) EXCEPT
                             !.diags = <<mismatch(params[k], argVal)>> \o @])
        usedParams(k) ==
            {params[j].Name : j \in 1..(IF Len(positional) < nparam
                                        THEN Len(positional) ELSE nparam)}
            \cup {t.names[named[j]] : j \in 1..(k - 1)}
        \* the named arguments from number k on
        RECURSIVE nam(_)
        nam(k) ==
            IF k > Len(named) THEN [diags |-> <<>>, diverged |-> FALSE]
            ELSE With(t.names[named[k]], LAMBDA name :
                 With(IF name \in usedParams(k)
                      THEN <<Diagnostic(rng, "ArgumentCardinality", "Warning",
                                        "duplicate named argument", <<name>>)>>
                      ELSE <<>>, LAMBDA dup :
                 With(paramsByName(params, name), LAMBDA param :
                     IF param = None
                     THEN [nam(k + 1) EXCEPT !.diags =
                              dup \o <<Diagnostic(rng, "UnknownArgument", "Error",
                                                  "unknown named argument", <<name>>)>> \o @]
                     ELSE IF param[1].Type = "any"
                     THEN [nam(k + 1) EXCEPT !.diags = dup \o @]
                     ELSE With(argValue[named[k]], LAMBDA argVal :
                             IF argVal.diverged THEN [diags |-> dup, diverged |-> TRUE]
                             ELSE IF argVal.Type = "any"
                             THEN [nam(k + 1) EXCEPT !.diags = dup \o @]
                             ELSE IF param[1].Type # argVal.Type
                                     /\ ~(param[1].Type = "null"
                                          /\ t.kids[named[k]].kind = "LiteralNull")
                             THEN [nam(k + 1) EXCEPT !.diags =
                                      dup \o <<mismatch(param[1], argVal)>> \o @]
                             ELSE [nam(k + 1) EXCEPT !.diags = dup \o @]))))
    IN  IF fn.Type \notin {"any", "function"}
        THEN [diags |-> dupSimple \o <<Diagnostic(rng, "TypeMismatch", "Error",
                                                  "calling non-function type",
                                                  <<fn.Type>>)>>,
              diverged |-> FALSE]
        ELSE IF fn.Function = None THEN [diags |-> dupSimple, diverged |-> FALSE]
        ELSE With(pos(1), LAMBDA p :
                IF p.diverged THEN [diags |-> <<>>, diverged |-> TRUE]
                ELSE With(nam(1), LAMBDA n :
                        [diags |-> tooMany \o tooFew \o p.diags \o n.diags,
                         diverged |-> n.diverged]))

\* checkUnaryOp(lhs, node)
checkUnaryOp(lhs, node) ==
    LET t == RefNode(node)
        rng == RefRange(Some(node))
    IN  IF lhs.Type = "any" THEN <<>>
        ELSE IF t.id = "!" /\ lhs.Type # "boolean"
        THEN <<Diagnostic(rng, "", "Warning",
                          "expected boolean for operand of binary operator",
                          <<t.id, lhs.Type>>)>>
        ELSE IF t.id \in {"~", "+", "-"} /\ lhs.Type # "number"
        THEN <<Diagnostic(rng, "", "Warning",
                          "expected number for operand of binary operator",
                          <<t.id, lhs.Type>>)>>
        ELSE <<>>

\* checkIndex(target, idx, node)
checkIndex(target, idx, node) ==
    LET rng == RefRange(Some(node))
        err(fmt) == <<Diagnostic(rng, "TypeMismatch", "Error", fmt, <<target.Type>>)>>
        isStr == idx.Node # None /\ RefNode(idx.Node[1]).kind = "LiteralString"
    IN  IF target.Type = "any" \/ idx.Type = "any" \/ target.Type = "null" THEN <<>>
        ELSE CASE target.Type = "array" ->
                    IF idx.Type # "number" THEN err("cannot index array with type")
                    ELSE <<>>
               [] target.Type = "object" ->
                    (IF idx.Type # "string" THEN err("cannot index object with type")
                     ELSE <<>>)
                    \o (IF /\ isStr
                           /\ target.Object # None
                           /\ target.Object[1].AllFieldsKnown
                           /\ FieldMapGet(target.Object[1],
                                          <<RefNode(idx.Node[1]).id>>) = None
                        THEN <<Diagnostic(rng, "UnknownField", "Warning",
                                          "object has no field",
                                          <<RefNode(idx.Node[1]).id>>)>>
                        ELSE <<>>)
               [] target.Type = "string" ->
                    IF idx.Type # "number" THEN err("cannot index string with type")
                    ELSE <<>>
               [] OTHER ->
                    <<Diagnostic(RefRange(target.Range), "TypeMismatch", "Error",
                                 "cannot index type", <<target.Type>>)>>

\* checkBinaryOp(lhs, rhs, node)
checkBinaryOp(lhs, rhs, node) ==
    LET t == RefNode(node)
        rng == RefRange(Some(node))
        warn(r, fmt, args) == <<Diagnostic(r, "TypeMismatch", "Warning", fmt, args)>>
        ordered(v) == v.Type \in {"array", "string", "number"}
    IN  IF lhs.Type = "any" \/ rhs.Type = "any" THEN <<>>
        ELSE CASE t.id \in {"/", "*", "-", "<<", ">>", "&", "|", "^"} ->
                    (IF lhs.Type # "number"
                     THEN warn(RefRange(lhs.Range), "expected number for lhs of operator",
                               <<t.id, lhs.Type>>)
                     ELSE <<>>)
                    \o (IF rhs.Type # "number"
                        THEN warn(RefRange(rhs.Range), "expected number for rhs of operator",
                                  <<t.id, rhs.Type>>)
                        ELSE <<>>)
               [] t.id \in {"<", "<=", ">", ">="} ->
                    (IF ~ordered(lhs)
                     THEN warn(RefRange(lhs.Range),
                               "expected number, array, or string for lhs of operator",
                               <<t.id, lhs.Type>>)
                     ELSE <<>>)
                    \o (IF ~ordered(rhs)
                        THEN warn(RefRange(rhs.Range),
                                  "expected number, array, or string for rhs of operator",
                                  <<t.id, rhs.Type>>)
                        ELSE <<>>)
                    \o (IF lhs.Type # rhs.Type
                        THEN warn(rng, "< operator cannot compare different types",
                                  <<lhs.Type, rhs.Type>>)
                        ELSE <<>>)
               [] t.id = "==" /\ lhs.Type # rhs.Type ->
                    warn(rng, "equal comparison is never true for different types",
                         <<lhs.Type, rhs.Type>>)
               [] t.id = "+" /\ lhs.Type # rhs.Type ->
                    warn(rng, "+ operator cannot add different types",
                         <<lhs.Type, rhs.Type>>)
               [] t.id = "!=" /\ lhs.Type # rhs.Type ->
                    warn(rng, "not equal comparison is always true for different types",
                         <<lhs.Type, rhs.Type>>)
               [] OTHER -> <<>>

\* the visitor of LintAST at one node: the diagnostics it appends; val[i] is
\* analysis.NodeToValue of child i, val[0] that of the node
lintNode(path) ==
    LET node == Ref("main", path)
        t == RefNode(node)
        ret(vals, diags) ==
            IF \E i \in 1..Len(vals) : vals[i].diverged
            THEN [diags |-> <<>>, diverged |-> TRUE]
            ELSE [diags |-> diags, diverged |-> FALSE]
    IN  With([i \in 0..Len(t.kids) |->
                 NodeToValue(IF i = 0 THEN node ELSE Kid(node, i))], LAMBDA val :
        CASE t.kind = "Import" ->
               ret(<<val[0]>>, IF val[0].Node = None /\ val[0].Type = "any"
                               THEN <<Diagnostic(RefRange(Some(node)), "ImportNotFound",
                                                 "Warning", "import not found:",
                                                 <<t.id>>)>>
                               ELSE <<>>)
          [] t.kind = "Apply" ->
               IF val[1].diverged THEN ret(<<val[1]>>, <<>>)
               ELSE checkFunctionCall(val[1], node, val)
          [] t.kind = "Index" ->
               ret(<<val[1], val[2]>>, checkIndex(val[1], val[2], node))
          [] t.kind = "Unary" -> ret(<<val[1]>>, checkUnaryOp(val[1], node))
          [] t.kind = "Binary" ->
               ret(<<val[1], val[2]>>, checkBinaryOp(val[1], val[2], node))
          [] OTHER -> [diags |-> <<>>, diverged |-> FALSE])

\* declaredVars after the walk: the binds of locals and of objects that no
\* visited variable was resolved to by findVarbindInStack, less the names
\* that are never reported; each with the child that is the body of the bind
unusedVars(visits) ==
    LET declared ==
            UNION {LET t == NodeAt(rootAST, visits[i].node)
                       binds == RoleKids(t, "bind") \o RoleKids(t, "local")
                   IN  {[def |-> visits[i].node, name |-> t.names[binds[k]],
                         kid |-> binds[k]] : k \in 1..Len(binds)}
                   : i \in 1..Len(visits)}
        refs(b) ==
            {i \in 1..Len(visits) :
                /\ NodeAt(rootAST, visits[i].node).kind = "Var"
                /\ findVarbindInStack(NodeAt(rootAST, visits[i].node).id,
                                      visits[i].stk, Len(visits[i].stk))
                       = Some([def |-> b.def, name |-> b.name])}
    IN  {b \in declared : refs(b) = {} /\ b.name \notin {"$", "$std", "self"}}

\* LintAST(root, resolver): what it can return.  The diagnostics of the walk
\* come in walk order, those of the unused variables in the order of a range
\* over the map declaredVars, and sortDiags arranges them.
LintAST ==
    LET visits == WalkStack(rootAST, {})
        RECURSIVE walked(_)
        walked(i) ==
            IF i > Len(visits) THEN [diags |-> <<>>, diverged |-> FALSE]
            ELSE With(lintNode(visits[i].node), LAMBDA d :
                    IF d.diverged THEN d
                    ELSE [walked(i + 1) EXCEPT !.diags = d.diags \o @])
        unused(order) ==
            [i \in 1..Len(order) |->
                Diagnostic(BindLocRange(Ref("main", order[i].def), order[i].kid),
                           "UnusedVar", "Warning", "unused local variable",
                           <<order[i].name>>)]
    IN  With(walked(1), LAMBDA w :
            IF w.diverged THEN {[returned |-> FALSE, diags |-> <<>>]}
            ELSE {[returned |-> TRUE, diags |-> s] :
                    s \in UNION {sortDiags(w.diags \o unused(order)) :
                                    order \in MapOrders(unusedVars(visits))}})


(***************************************************************************)
(* The linter on bounded documents                                         *)
(***************************************************************************)
\* the documents linted: local f = function(a/*:ta*/, b/*:number*/) null; and
\* a call of f with two arguments, and local x = b, y = c; e with bodies that
\* use x or not, with and without a type error
LintTrees ==
    LET LintArgs == {astLiteralNumber, astLiteralString("x"), astLiteralNull}
        LintFunctions ==
            {astFunction(<<astParameter("a", ta, 0), astParameter("b", "number", 0)>>,
                         <<>>, astLiteralNull) : ta \in {"string", "null"}}
        LintCalls ==
            {astLocal("f", fn, c) :
                fn \in LintFunctions,
                c \in UNION {{astApply(astVar("f"), <<p, q>>, <<>>, <<>>),
                              astApply(astVar("f"), <<p>>, <<"b">>, <<q>>),
                              astApply(astVar("f"), <<>>, <<"a", "b">>, <<p, q>>),
                              astApply(astVar("f"), <<>>, <<"b", "a">>, <<q, p>>)}
                             : p \in LintArgs, q \in LintArgs}}
        LintBodies ==
            {astVar("x"), astLiteralNumber, astUnary("-", astLiteralString("x")),
             astUnary("!", astVar("x")),
             astBinary("*", astLiteralString("x"), astVar("y")),
             astBinary("<", astLiteralNull, astLiteralNumber),
             astBinary("==", astVar("x"), astVar("y")),
             astIndex(astArray(<<astLiteralNumber>>), astLiteralString("x")),
             astIndex(astLiteralNumber, astLiteralNumber),
             astIndex(astImport("lib"), astLiteralString("x")),
             astIndex(astDesugaredObject(astLiteralString("f"), astLiteralNumber),
                      astLiteralString("x")),
             astFunction(<<astParameter("a", "any", 1)>>, <<astVar("x")>>, astVar("a")),
             astDesugaredObject(astVar("x"), astLiteralNumber),
             astDesugaredObject(astLiteralString("f"), astVar("x")),
             astLocal("x", astLiteralNumber, astVar("x")),
             astLocal("g", astLiteralNumber, astLiteralNumber)}
        LintLocals ==
            {astLocal2("x", b, "y", c, e) :
                b \in {astLiteralNumber, astLiteralString("f")},
                c \in {astLiteralNumber, astVar("x")},
                e \in LintBodies}
    IN  LintCalls \cup LintLocals

InitLint ==
    /\ InitServer
    /\ InitVM
    /\ rootAST \in LintTrees
    /\ importAST \in [{"lib"} -> {None,
                                  Some(astDesugaredObject(astLiteralString("f"),
                                                          astLiteralNumber))}]
    /\ call = [fn |-> "none"]

\* linter.LintAST(root, resolver) on the document
RunLintAST ==
    /\ \E res \in LintAST : call' = [fn |-> "LintAST", res |-> res]
    /\ UNCHANGED <<serverVars, rootAST, importAST>>

SpecLint == InitLint /\ [][RunLintAST]_vars

C16_OneMismatchPerArgument ==
    (call.fn = "LintAST" /\ call.res.returned) =>
        \A path \in Paths(rootAST) :
            LET node == Ref("main", path)
                t == RefNode(node)
                fn == NodeToValue(Kid(node, 1))
                params == fn.Function[1].Params
                positional == RoleKids(t, "arg")
                named == RoleKids(t, "named")
                declared(name) == CHOOSE p \in {params[i] : i \in 1..Len(params)} :
                                     p.Name = name
                differ(param, i) ==
                    /\ param.Type # "any"
                    /\ NodeToValue(Kid(node, i)).Type \notin {"any", param.Type}
                msg(param, i) ==
                    [fmt |-> "mismatched argument type for",
                     args |-> <<param.Name, param.Type, NodeToValue(Kid(node, i)).Type>>]
                expected(m) ==
                    Cardinality({k \in 1..Len(positional) :
                                    /\ k <= Len(params)
                                    /\ differ(params[k], positional[k])
                                    /\ msg(params[k], positional[k]) = m})
                    + Cardinality({k \in 1..Len(named) :
                                    /\ \E i \in 1..Len(params) :
                                          params[i].Name = t.names[named[k]]
                                    /\ differ(declared(t.names[named[k]]), named[k])
                                    /\ ~(declared(t.names[named[k]]).Type = "null"
                                         /\ t.kids[named[k]].kind = "LiteralNull")
                                    /\ msg(declared(t.names[named[k]]), named[k]) = m})
                emitted(m) ==
                    Cardinality({i \in 1..Len(call.res.diags) :
                                    /\ call.res.diags[i].Code = "TypeMismatch"
                                    /\ call.res.diags[i].Range
                                          = rangeToProto(RefRange(Some(node)))
                                    /\ call.res.diags[i].Message = m})
            IN  (t.kind = "Apply" /\ fn.Function # None) =>
                    \A a \in {"a", "b"}, ta, tb \in {"string", "number", "null"} :
                        LET m == [fmt |-> "mismatched argument type for",
                                  args |-> <<a, ta, tb>>]
                        IN  emitted(m) = expected(m)

Configs == {[Linter |-> l, Evaluate |-> e] : l, e \in BOOLEAN}

\* what the linter and the evaluator find in a file that parses
Findings == {"clean", "lintError", "runtimeError"}

\* (*ParseResult).StaticErr() of the Data of an Entry: nil for a nil Data
StaticErr(e) == e.Data # None /\ e.Data[1].Err

\* the Diagnostic built from pr.StaticErr(): its Range and Message are those
\* of the error of parsing the text of the Entry, named here by that text
StaticErrDiag(e) == [Severity |-> "Error", Source |-> "jsonnet", Err |-> e.Contents]

\* the diagnostics of the linter for a root (one Error, or none) and, if it
\* reported no error and evaluation is configured, those of a runtime error
LintAndEvaluate(root, cfg, found) ==
    (IF found = "lintError"
     THEN <<[Severity |-> "Error", Source |-> "lint", Err |-> root]>> ELSE <<>>)
    \o (IF found = "runtimeError" /\ cfg.Evaluate
        THEN <<[Severity |-> "Error", Source |-> "RuntimeError", Err |-> root]>>
        ELSE <<>>)

\* notifier.PublishDiagnostics; cur, par, linted and evaluated are history:
\* the entries the callback was given and what it ran
Publish(u, diags, linted, evaluated) ==
    published' = [published EXCEPT ![u] =
                    Some([Version |-> heap[current[u]].Version, Diagnostics |-> diags,
                          cur |-> current[u], par |-> parsed[u],
                          linted |-> linted, evaluated |-> evaluated])]

\* done(UpdateResult{Current: f.current, Parsed: f.parsed}) with the done of
\* the goroutine: the callback of processFileUpdateFn, or the empty function
\* Close passes
ProcessFileUpdate(g) ==
    LET u == gor[g].URI IN
    /\ ~crashed
    /\ gor[g].pc = "apply"
    /\ gor[g].pending = <<>>
    /\ callbacks' = [callbacks EXCEPT ![u] = @ + 1]
    /\ lastCb' = [lastCb EXCEPT ![u] = IF current[u] # Nil
                                       THEN heap[current[u]].Version ELSE @]
    /\ IF gor[g].done = "noop" \/ current[u] = Nil
       THEN /\ gor' = SetPc(g, "done")
            /\ UNCHANGED <<updateLock, published>>
       ELSE IF StaticErr(heap[current[u]])
       THEN /\ Publish(u, <<StaticErrDiag(heap[current[u]])>>, FALSE, FALSE)
            /\ gor' = SetPc(g, "done")
            /\ UNCHANGED updateLock
       ELSE \E cfg \in Configs, found \in Findings :
              IF /\ parsed[u] # Nil
                 /\ cfg.Linter
                 /\ heap[current[u]].Version = heap[parsed[u]].Version
              THEN IF heap[parsed[u]].Data = None
                   THEN \* ur.Parsed.Data.(*ParseResult) panics on a nil Data;
                        \* the deferred f.updateLock.Unlock() runs
                        /\ gor' = SetPc(g, "panicked")
                        /\ updateLock' = [updateLock EXCEPT ![u] = 0]
                        /\ UNCHANGED published
                   ELSE /\ Publish(u, LintAndEvaluate(heap[parsed[u]].Data[1].Root,
                                                      cfg, found),
                                   TRUE, found # "lintError" /\ cfg.Evaluate)
                        /\ gor' = SetPc(g, "done")
                        /\ UNCHANGED updateLock
              ELSE /\ Publish(u, <<>>, FALSE, FALSE)
                   /\ gor' = SetPc(g, "done")
                   /\ UNCHANGED updateLock
    /\ UNCHANGED <<updateQueue, files, heap, current, parsed, crashed>>
    /\ UNCHANGED clientVars
    /\ UNCHANGED <<rd, fs, nwrites, imp, impLog, realCalls, vmVars, pureVars>>
    /\ UNCHANGED sessionVars
    /\ UNCHANGED <<closedUpTo, batches, lastOp>>

\* the overlay with the callbacks of the server
NextDiag ==
    \/ \E u \in URIs, t \in ReplaceTexts : Replace(u, nver[u] + 1, t)
    \/ \E u \in URIs, d \in 1..2, e \in EditLists : Update(u, nver[u] + d, e)
    \/ \E u \in URIs : Close(u)
    \/ \E g \in Goroutines : getFile(g)
    \/ \E g \in Goroutines : Lock(g)
    \/ \E g \in Goroutines : Drain(g)
    \/ \E g \in Goroutines : Apply(g)
    \/ \E g \in Goroutines : ProcessFileUpdate(g)
    \/ \E g \in Goroutines : Return(g)
    \/ ProcessExit

SpecDiag == Init /\ [][NextDiag]_vars

\* an Entry that holds the AST of a parse that succeeded
HasAST(e) == e.Data # None /\ e.Data[1].Root # NoAST

\* C13: when the text of the version a notification is published for does
\* not parse and its entry has no AST, recovered or not, the notification
\* carries exactly the one Error diagnostic of the parse error, neither the
\* linter nor the evaluator ran, and parsed is not this entry but, if any,
\* an earlier one that holds an AST.
C13_ParseFailureOneErrorDiag ==
    \A u \in URIs :
        published[u] # None =>
            LET p == published[u][1]
                e == heap[p.cur]
            IN  (SnippetToAST(e.Contents).Err /\ ~HasAST(e)) =>
                    /\ p.Diagnostics = <<StaticErrDiag(e)>>
                    /\ ~p.linted
                    /\ ~p.evaluated
                    /\ p.par # p.cur
                    /\ p.par # Nil =>
                          /\ HasAST(heap[p.par])
                          /\ heap[p.par].Version < e.Version

\* C14: when a delta Update gives a text that does not parse but parses with
\* ';' or, failing that, ',' put right after the last inserted text, the
\* entry installed is also parsed, it holds the AST of the first alternative
\* that parses together with the error of the text as edited, and its text
\* is the edited text without the added character; a notification published
\* for an entry that holds such an AST and error carries exactly the
\* diagnostic of that error.
C14_RecoveredASTKeepsError ==
    /\ [][\A u \in URIs :
            LET e == heap'[current'[u]]
                lastEdit == [NewText |-> <<Head(e.Contents)>>]
            IN  (/\ current'[u] # current[u]
                 /\ lastOp'[u] = "delta"
                 /\ SnippetToAST(e.Contents).Err
                 /\ tryRecoverAST(e.Contents, lastEdit) # NoAST)
                => /\ parsed'[u] = current'[u]
                   /\ e.Data = Some([Root |-> tryRecoverAST(e.Contents, lastEdit),
                                     Err |-> TRUE])
                   /\ Tail(e.Contents) = heap[current[u]].Contents]_vars
    /\ [](\A u \in URIs :
            published[u] # None =>
                LET p == published[u][1]
                    e == heap[p.cur]
                IN  (HasAST(e) /\ e.Data[1].Err) =>
                        /\ p.Diagnostics = <<StaticErrDiag(e)>>
                        /\ p.Version = e.Version
                        /\ p.par = p.cur)

(***************************************************************************)
(* Package annotation: the scanner, the parser and the printer of type     *)
(* annotations.  A string is the sequence of its characters.               *)
(***************************************************************************)
\* the characters of a string literal of the source; a string of one
\* character is that character
Chars(s) ==
    CASE s = "string" -> <<"s", "t", "r", "i", "n", "g">>
      [] s = "boolean" -> <<"b", "o", "o", "l", "e", "a", "n">>
      [] s = "number" -> <<"n", "u", "m", "b", "e", "r">>
      [] s = "null" -> <<"n", "u", "l", "l">>
      [] s = "array" -> <<"a", "r", "r", "a", "y">>
      [] s = "object" -> <<"o", "b", "j", "e", "c", "t">>
      [] s = "function" -> <<"f", "u", "n", "c", "t", "i", "o", "n">>
      [] s = "array[" -> <<"a", "r", "r", "a", "y", "[">>
      [] s = "object[" -> <<"o", "b", "j", "e", "c", "t", "[">>
      [] s = "function(" -> <<"f", "u", "n", "c", "t", "i", "o", "n", "(">>
      [] s = ") -> " -> <<")", " ", "-", ">", " ">>
      [] s = "->" -> <<"-", ">">>
      [] s = ", " -> <<",", " ">>
      [] s = ": " -> <<":", " ">>
      [] s = " | " -> <<" ", "|", " ">>
      [] s = "" -> <<>>
      [] OTHER -> <<s>>

\* scanner.Scan until EOF: the tokens of a text, with scanWhitespace and
\* scanIdent
Scan(text) ==
    LET ch(i) == IF i <= Len(text) THEN text[i] ELSE "eof"
        isWhitespace(c) == c \in {" ", "\t", "\n"}
        isLetter(c) ==
            c \in {"a", "b", "c", "d", "e", "f", "g", "h", "i", "j", "k", "l", "m",
                   "n", "o", "p", "q", "r", "s", "t", "u", "v", "w", "x", "y", "z",
                   "A", "B", "C", "D", "E", "F", "G", "H", "I", "J", "K", "L", "M",
                   "N", "O", "P", "Q", "R", "S", "T", "U", "V", "W", "X", "Y", "Z"}
        isDigit(c) == c \in {"0", "1", "2", "3", "4", "5", "6", "7", "8", "9"}
        isIdentChar(c) == isLetter(c) \/ isDigit(c) \/ c = "_" \/ c = "$"
        RECURSIVE wsEnd(_)
        wsEnd(i) == IF isWhitespace(ch(i)) THEN wsEnd(i + 1) ELSE i
        RECURSIVE idEnd(_)
        idEnd(i) == IF isIdentChar(ch(i)) THEN idEnd(i + 1) ELSE i
        ident(lit) ==
            CASE lit = Chars("object") -> [tok |-> "OBJECT", lit |-> lit]
              [] lit = Chars("function") -> [tok |-> "FUNCTION", lit |-> lit]
              [] lit = Chars("array") -> [tok |-> "ARRAY", lit |-> lit]
              [] OTHER -> [tok |-> "IDENT", lit |-> lit]
        single(c) ==
            CASE c = "(" -> "PAREN_OPEN" [] c = ")" -> "PAREN_CLOSE"
              [] c = "{" -> "BRACE_OPEN" [] c = "}" -> "BRACE_CLOSE"
              [] c = "[" -> "BRACKET_OPEN" [] c = "]" -> "BRACKET_CLOSE"
              [] c = "," -> "COMMA" [] c = "." -> "DOT" [] c = ":" -> "COLON"
              [] c = "|" -> "UNION" [] OTHER -> "ILLEGAL"
        RECURSIVE scan(_)
        scan(i) ==
            IF i > Len(text) THEN <<>>
            ELSE IF isWhitespace(ch(i))
            THEN <<[tok |-> "SPACE", lit |-> SubSeq(text, i, wsEnd(i) - 1)]>>
                 \o scan(wsEnd(i))
            ELSE IF isIdentChar(ch(i))
            THEN <<ident(SubSeq(text, i, idEnd(i) - 1))>> \o scan(idEnd(i))
            ELSE IF ch(i) = "-" /\ ch(i + 1) = ">"
            THEN <<[tok |-> "ARROW", lit |-> Chars("->")]>> \o scan(i + 2)
            ELSE <<[tok |-> single(ch(i)), lit |-> <<ch(i)>>]>> \o scan(i + 1)
    IN  scan(1)

\* isLitTypeParam(lit): one upper-case letter
isLitTypeParam(lit) ==
    /\ Len(lit) = 1
    /\ lit[1] \in {"A", "B", "C", "D", "E", "F", "G", "H", "I", "J", "K", "L", "M",
                   "N", "O", "P", "Q", "R", "S", "T", "U", "V", "W", "X", "Y", "Z"}

\* the Node values; a nil Node or slice is None
AnnNode(k) ==
    [k |-> k, Name |-> <<>>, Names |-> <<>>, ElementType |-> None, Fields |-> None,
     Params |-> None, Return |-> None, Types |-> <<>>]

\* (*parser).Parse on the text the scanner reads: the node, or the error of
\* the recovered panic.  scan skips the whitespace token, so the functions
\* work on the other tokens, toks; each returns where it stopped.
parserParse(text) ==
    LET parse(toks) ==
        LET at(i) == IF i <= Len(toks) THEN toks[i] ELSE [tok |-> "EOF", lit |-> <<>>]
            ok(v, i) == [ok |-> TRUE, val |-> v, i |-> i]
            fail == [ok |-> FALSE, val |-> None, i |-> 0]
            RECURSIVE parseTypeHint(_), unionTypes(_, _), parseTypeHintNoUnion(_),
                      dottedNames(_, _), objectParams(_, _), functionParams(_, _)
            parseTypeHint(i) ==
                With(parseTypeHintNoUnion(i), LAMBDA r :
                    IF ~r.ok THEN fail
                    ELSE IF at(r.i).tok # "UNION" THEN r
                    ELSE unionTypes(<<r.val>>, r.i))
            unionTypes(types, i) ==
                IF at(i).tok # "UNION"
                THEN ok([AnnNode("Union") EXCEPT !.Types = types], i)
                ELSE With(parseTypeHintNoUnion(i + 1), LAMBDA r :
                        IF ~r.ok THEN fail ELSE unionTypes(Append(types, r.val), r.i))
            \* the loop of parseDottedIdent, at the token after a DOT
            dottedNames(names, i) ==
                IF at(i).tok # "IDENT" THEN fail
                ELSE IF at(i + 1).tok = "DOT"
                THEN dottedNames(Append(names, at(i).lit), i + 2)
                ELSE ok([AnnNode("DottedIdent") EXCEPT
                            !.Names = Append(names, at(i).lit)], i + 1)
            parseTypeHintNoUnion(i) ==
                With(at(i), LAMBDA t :
                CASE t.tok = "IDENT" ->
                       IF isLitTypeParam(t.lit)
                       THEN ok([AnnNode("TypeParameter") EXCEPT !.Name = t.lit], i + 1)
                       ELSE IF t.lit = Chars("string") THEN ok(AnnNode("String"), i + 1)
                       ELSE IF t.lit = Chars("boolean") THEN ok(AnnNode("Boolean"), i + 1)
                       ELSE IF t.lit = Chars("number") THEN ok(AnnNode("Number"), i + 1)
                       ELSE IF t.lit = Chars("null") THEN ok(AnnNode("Null"), i + 1)
                       ELSE IF at(i + 1).tok = "DOT" THEN dottedNames(<<t.lit>>, i + 2)
                       ELSE ok([AnnNode("Ident") EXCEPT !.Name = t.lit], i + 1)
                  [] t.tok \in {"ARRAY", "OBJECT"} ->
                       With(IF t.tok = "ARRAY" THEN "Array" ELSE "Object", LAMBDA k :
                           IF at(i + 1).tok # "BRACKET_OPEN" THEN ok(AnnNode(k), i + 1)
                           ELSE With(parseTypeHint(i + 2), LAMBDA r :
                                   IF ~r.ok \/ at(r.i).tok # "BRACKET_CLOSE" THEN fail
                                   ELSE ok([AnnNode(k) EXCEPT
                                               !.ElementType = Some(r.val)], r.i + 1)))
                  [] t.tok = "BRACE_OPEN" ->
                       With(objectParams(<<>>, i + 1), LAMBDA r :
                           IF ~r.ok THEN fail
                           ELSE ok([AnnNode("Object") EXCEPT !.Fields = Some(r.val)], r.i))
                  [] t.tok = "FUNCTION" ->
                       IF at(i + 1).tok # "PAREN_OPEN" THEN ok(AnnNode("Function"), i + 1)
                       ELSE With(functionParams(<<>>, i + 2), LAMBDA ps :
                               IF ~ps.ok THEN fail
                               ELSE IF at(ps.i).tok # "ARROW"
                               THEN ok([AnnNode("Function") EXCEPT
                                           !.Params = Some(ps.val)], ps.i)
                               ELSE With(parseTypeHint(ps.i + 1), LAMBDA r :
                                       IF ~r.ok THEN fail
                                       ELSE ok([AnnNode("Function") EXCEPT
                                                   !.Params = Some(ps.val),
                                                   !.Return = Some(r.val)], r.i)))
                  [] OTHER -> fail)
            \* the loop of parseObjectParams
            objectParams(params, i) ==
                IF at(i).tok # "IDENT" \/ at(i + 1).tok # "COLON" THEN fail
                ELSE With(parseTypeHint(i + 2), LAMBDA r :
                        IF ~r.ok THEN fail
                        ELSE With(Append(params, [Name |-> at(i).lit,
                                                  Type |-> Some(r.val)]), LAMBDA ps :
                                IF at(r.i).tok = "COMMA" THEN objectParams(ps, r.i + 1)
                                ELSE IF at(r.i).tok # "BRACE_CLOSE" THEN fail
                                ELSE ok(ps, r.i + 1)))
            \* the rest of the loop of parseFunctionParams after a parameter
            \* that ends before token next
            functionParams(params, i) ==
                IF at(i).tok # "IDENT" THEN fail
                ELSE With(IF at(i + 1).tok = "COLON" THEN parseTypeHint(i + 2)
                          ELSE [ok |-> TRUE, val |-> None, i |-> i + 1], LAMBDA r :
                        IF ~r.ok THEN fail
                        ELSE With(Append(params,
                                         [Name |-> at(i).lit,
                                          Type |-> IF at(i + 1).tok = "COLON"
                                                   THEN Some(r.val) ELSE None]),
                                  LAMBDA ps :
                                IF at(r.i).tok = "COMMA" THEN functionParams(ps, r.i + 1)
                                ELSE IF at(r.i).tok # "PAREN_CLOSE" THEN fail
                                ELSE ok(ps, r.i + 1)))
        IN  With(parseTypeHint(1), LAMBDA r : [node |-> r.val, err |-> ~r.ok])
    IN  parse(SelectSeq(Scan(text), LAMBDA t : t.tok # "SPACE"))

\* annotation.Parse(text): the common cases first, then the parser
Parse(text) ==
    LET elem(c) == [AnnNode("Array") EXCEPT
                       !.ElementType = Some([AnnNode("TypeParameter") EXCEPT
                                                !.Name = <<c>>])]
        is(s) == text = Chars(s)
        of(s) == text = Chars("array[") \o Chars(s) \o Chars("]")
        done(n) == [node |-> n, err |-> FALSE]
    IN  IF isLitTypeParam(text)
        THEN done([AnnNode("TypeParameter") EXCEPT !.Name = text])
        ELSE CASE is("string") -> done(AnnNode("String"))
               [] is("boolean") -> done(AnnNode("Boolean"))
               [] is("number") -> done(AnnNode("Number"))
               [] is("null") -> done(AnnNode("Null"))
               [] is("function") -> done(AnnNode("Function"))
               [] is("object") -> done(AnnNode("Object"))
               [] is("array") -> done(AnnNode("Array"))
               [] of("string") ->
                    done([AnnNode("Array") EXCEPT !.ElementType = Some(AnnNode("String"))])
               [] of("number") ->
                    done([AnnNode("Array") EXCEPT !.ElementType = Some(AnnNode("Number"))])
               [] of("boolean") ->
                    done([AnnNode("Array") EXCEPT !.ElementType = Some(AnnNode("Boolean"))])
               [] of("E") -> done(elem("E"))
               [] of("T") -> done(elem("T"))
               [] of("A") -> done(elem("A"))
               [] OTHER -> parserParse(text)

\* the strings written one after the other
Concat(strs, sep) ==
    LET RECURSIVE cat(_)
        cat(i) == IF i > Len(strs) THEN <<>> ELSE strs[i] \o cat(i + 1)
    IN  cat(1)

\* strings.Join(strs, sep)
Join(strs, sep) ==
    LET RECURSIVE join(_)
        join(i) == IF i > Len(strs) THEN <<>>
                   ELSE IF i = Len(strs) THEN strs[i]
                   ELSE strs[i] \o sep \o join(i + 1)
    IN  join(1)

\* Node.String()
RECURSIVE String(_)
String(n) ==
    LET param(p) == IF p.Type = None THEN p.Name
                    ELSE p.Name \o Chars(": ") \o String(p.Type[1])
        params(ps) == Join([i \in 1..Len(ps) |-> param(ps[i])], Chars(", "))
    IN  CASE n.k \in {"TypeParameter", "Ident"} -> n.Name
          [] n.k = "String" -> Chars("string")
          [] n.k = "Number" -> Chars("number")
          [] n.k = "Boolean" -> Chars("boolean")
          [] n.k = "Null" -> Chars("null")
          [] n.k = "DottedIdent" -> Join(n.Names, Chars("."))
          [] n.k = "Function" ->
               IF n.Params = None /\ n.Return = None THEN Chars("function")
               ELSE Chars("function(")
                    \o (IF n.Params = None THEN <<>> ELSE params(n.Params[1]))
                    \o (IF n.Return = None THEN Chars(")")
                        ELSE Chars(") -> ") \o String(n.Return[1]))
          [] n.k = "Union" ->
               Join([i \in 1..Len(n.Types) |-> String(n.Types[i])], Chars(" | "))
          [] n.k = "Array" ->
               IF n.ElementType = None THEN Chars("array")
               ELSE Chars("array[") \o String(n.ElementType[1]) \o Chars("]")
          [] n.k = "Object" ->
               IF n.ElementType = None /\ n.Fields = None THEN Chars("object")
               ELSE IF n.ElementType # None
               THEN Chars("object[") \o String(n.ElementType[1]) \o Chars("]")
               ELSE Chars("{") \o params(n.Fields[1]) \o Chars("}")

\* the texts parsed: every sequence of up to MaxLexemes lexemes, and longer
\* annotations in the forms of the parser's test cases
MaxLexemes == 4

AnnotationSources ==
    LET Lexemes == {"string", "array", "object", "function", "T", "x", ".", " ", ",",
                    ":", "{", "}", "[", "]", "(", ")", "->", "|", "-"}
        text(lex) == Concat([i \in 1..Len(lex) |-> Chars(lex[i])], <<>>)
    IN  {text(lex) : lex \in UNION {[1..n -> Lexemes] : n \in 1..MaxLexemes}}
        \cup {text(lex) : lex \in
               {<<"string", " | ", "null">>,
                <<"a", ".", "b", ".", "c">>,
                <<"T", ".", "x", " ", "y">>,
                <<"x", " ", " ", "|", "\t", "y">>,
                <<"array[", " ", "x", " ", "]">>,
                <<"array[", "object[", "number", " | ", "string", " | ", "null",
                  "]", "]">>,
                <<"{", "a", ": ", "number", ", ", "b", ": ", "string", " | ", "null",
                  ", ", "c", ": ", "array[", "boolean", "]", "}">>,
                <<"function(", "a", ", ", "b", ")">>,
                <<"function", " ", "(", "a", ":", "x", "|", "y", ",", "b", ")", "->",
                  "T">>,
                <<"function(", "n", ": ", "array[", "number", "]", ") -> ", "number">>,
                <<"function(", "f", ": ", "function(", "e", ": ", "A", ") -> ", "B",
                  ", ", "r", ": ", "array[", "A", "]", ") -> ", "array[", "B", "]">>,
                <<"x", " | ", "function(", "a", ") -> ", "y", " | ", "z">>,
                <<"function(", "a", ")", " | ", "y">>,
                <<"{", "f", ": ", "function(", "x", ") -> ", "y", ", ", "b", ": ",
                  "z", "}">>}}

InitAnnotation ==
    /\ InitServer
    /\ InitVM
    /\ rootAST = [kind |-> "LiteralNull", id |-> "null", kids |-> <<>>, roles |-> <<>>,
                  names |-> <<>>, params |-> <<>>]
    /\ importAST = [f \in {"lib"} |-> None]
    /\ call \in {[fn |-> "source", text |-> t] : t \in AnnotationSources}

\* annotation.Parse of the source text, and of the String() of a node it gave
RunParse ==
    /\ call.fn \in {"source", "Parse"}
    /\ call.fn = "Parse" => ~call.res.err
    /\ LET text == IF call.fn = "source" THEN call.text ELSE String(call.res.node)
       IN  call' = [fn |-> "Parse", text |-> text, res |-> Parse(text)]
    /\ UNCHANGED <<serverVars, rootAST, importAST>>

SpecAnnotation == InitAnnotation /\ [][RunParse]_vars

\* C18: the String() of a node the parser gave parses without error to an
\* equal node, and the String() of that node is the same text.
C18_AnnotationRoundTrip ==
    (call.fn = "Parse" /\ ~call.res.err) =>
        LET s == String(call.res.node)
            r == Parse(s)
        IN  /\ ~r.err
            /\ r.node = call.res.node
            /\ String(r.node) = s

C18_Witness ==
    /\ call.fn = "Parse"
    /\ ~call.res.err
    /\ call.text # String(call.res.node)
    /\ call.res.node.k = "Function"
    /\ call.res.node.Params # None
    /\ call.res.node.Return # None

(***************************************************************************)
(* The overlay under a client that issues its calls for a URI one after    *)
(* the other: a Replace first, deltas with the next version while the      *)
(* document is open, a Close of an open document.  Each call returns once  *)
(* its update is queued and its goroutine started.                         *)
(***************************************************************************)
NextSeq ==
    \/ \E u \in URIs, t \in ReplaceTexts : Replace(u, nver[u] + 1, t)
    \/ \E u \in URIs, e \in EditLists : ref[u].Open /\ Update(u, nver[u] + 1, e)
    \/ \E u \in URIs : ref[u].Open /\ Close(u)
    \/ \E g \in Goroutines : getFile(g)
    \/ \E g \in Goroutines : Lock(g)
    \/ \E g \in Goroutines : Drain(g)
    \/ \E g \in Goroutines : Apply(g)
    \/ \E g \in Goroutines : CallDone(g)
    \/ \E g \in Goroutines : Return(g)
    \/ ProcessExit

SpecSeq == Init /\ [][NextSeq]_vars

\* the call that queued a was issued before the call that queued b: Mark is
\* the client's version when the call was made, and a Close is issued after
\* the edit whose version it carries as its Mark
IssuedBefore(a, b) ==
    \/ a.Mark < b.Mark
    \/ a.Mark = b.Mark /\ ~a.Close /\ b.Close

\* C24: when the client issues Replace, Update and Close for a URI one after
\* the other, a Replace first and every delta with the next version, every
\* drained batch is applied in the order its edits were issued in and no
\* iteration of applyFileUpdates raises an invariant fault.
C24_SequentialEditsInIssueOrder ==
    \A g \in Goroutines :
        /\ gor[g].pc # "panicked"
        /\ \A i, j \in 1..Len(gor[g].pending) :
              i < j => IssuedBefore(gor[g].pending[i], gor[g].pending[j])

\* The scheduling of the goroutines of Overlay.update: the Go scheduler runs
\* every goroutine that can take a step, and the runtime ends the process
\* after a panic.  Nothing makes the client issue another call.
FairSeq ==
    /\ SpecSeq
    /\ WF_vars(\E g \in Goroutines : getFile(g))
    /\ WF_vars(\E g \in Goroutines : Lock(g))
    /\ WF_vars(\E g \in Goroutines : Drain(g))
    /\ WF_vars(\E g \in Goroutines : Apply(g))
    /\ WF_vars(\E g \in Goroutines : CallDone(g))
    /\ WF_vars(\E g \in Goroutines : Return(g))
    /\ WF_vars(ProcessExit)

\* C25: every update enqueued for a URI is drained into exactly one batch
\* (a drain moves the whole queue, as it is, into the batch of one goroutine),
\* a batch loses an update only by applying it, no goroutine ends with
\* updates left in its batch, and under fair scheduling every update is
\* eventually applied and the queue of every URI is eventually empty for good.
C25_EveryUpdateAppliedOnce ==
    /\ [][\A g \in Goroutines :
            /\ (gor[g].pc = "drain" /\ gor'[g] # gor[g]) =>
                  /\ updateQueue'[gor[g].URI] = <<>>
                  /\ gor'[g].pending \in
                        {[i \in 1..Len(updateQueue[gor[g].URI]) |->
                             updateQueue[gor[g].URI][p[i]]] :
                                p \in Perms(Len(updateQueue[gor[g].URI]))}
            /\ gor'[g].pending # gor[g].pending /\ gor[g].pc # "drain" =>
                  /\ AppliesHead(g)
                  /\ gor'[g].pending = Tail(gor[g].pending)
                  /\ lastOp'[gor[g].URI] # "panic"]_vars
    /\ [](\A g \in Goroutines :
            gor[g].pc \in {"ret", "panicked"} => gor[g].pending = <<>>)
    /\ \A u \in URIs : <>[]Processed(u)

\* C26: whichever goroutine drains a batch, every Replace or Update in it is
\* parsed with the parse function of a Replace/Update caller (parseJsonnetFn),
\* and a batch that held a Replace or Update is followed by the callback of
\* such a caller (processFileUpdateFn), which publishes the diagnostics.
C26_BatchUsesEditorsParseAndCallback ==
    \A g \in Goroutines :
        /\ (gor[g].pc = "apply" /\ gor[g].pending # <<>>
                /\ ~Head(gor[g].pending).Close) => gor[g].parse = "jsonnet"
        /\ (gor[g].pc = "done" /\ lastOp[gor[g].URI] # "close") =>
                gor[g].done = "process"

\* C27: an update call returns only when its edit is applied: a
\* Current(uri) read that started after the client's latest call for uri had
\* returned (and during which the client issued nothing more for uri) gets
\* an entry of at least the version of that call if it was a Replace or an
\* Update, and no entry if it was a Close.
C27_ReadAfterUpdateSeesIt ==
    (/\ ~crashed
     /\ rd.pc = "got"
     /\ rd.fn = "Current"
     /\ rd.sent = Some([nver |-> nver[rd.URI], ref |-> ref[rd.URI]])) =>
        IF ref[rd.URI].Open
        THEN rd.res # Nil /\ rd.snap[1].Version >= ref[rd.URI].Version
        ELSE rd.res = Nil

(***************************************************************************)
(* The handlers of the text document notifications and of Completion.      *)
(***************************************************************************)
\* number of Completion requests
MaxCompletions == 2

\* the server after DidOpen(u, version 1, "a") for every URI, once both
\* updates have been applied and their callbacks, with the linter on, have
\* published; the goroutines that did it have ended
InitOpened ==
    /\ updateQueue = [u \in URIs |-> <<>>]
    /\ files = URIs
    /\ updateLock = [u \in URIs |-> 0]
    /\ heap = [i \in 1..2 |-> [Contents |-> <<"a">>, Version |-> 1,
                               Data |-> parseJsonnetFn(<<"a">>, None)[1]]]
    /\ current = [u \in URIs |-> IF u = "u1" THEN 1 ELSE 2]
    /\ parsed = [u \in URIs |-> IF u = "u1" THEN 1 ELSE 2]
    /\ gor = <<>>
    /\ crashed = FALSE
    /\ nver = [u \in URIs |-> 1]
    /\ ref = [u \in URIs |-> [Open |-> TRUE, Contents |-> <<"a">>, Version |-> 1]]
    /\ closedUpTo = [u \in URIs |-> 0]
    /\ batches = [u \in URIs |-> 1]
    /\ callbacks = [u \in URIs |-> 1]
    /\ lastCb = [u \in URIs |-> 1]
    /\ lastOp = [u \in URIs |-> "replace"]
    /\ rd = [pc |-> "idle", URI |-> "u1", fn |-> "Current", res |-> Nil,
             snap |-> None, during |-> "none", n |-> 0, sent |-> None]
    /\ fs = [u \in URIs |-> Some(<<"a">>)]
    /\ nwrites = 0
    /\ imp = EmptyImporter
    /\ impLog = <<>>
    /\ realCalls = [k \in ImportKeys |-> 0]
    /\ published = [u \in URIs |->
                      Some([Version |-> 1, Diagnostics |-> <<>>,
                            cur |-> IF u = "u1" THEN 1 ELSE 2,
                            par |-> IF u = "u1" THEN 1 ELSE 2,
                            linted |-> TRUE, evaluated |-> FALSE])]
    /\ lastCharIsDot = FALSE
    /\ lastChange = [u \in URIs |-> "none"]
    /\ complLog = <<>>
    /\ resolvers = <<>>
    /\ lk = [threads |-> <<>>, held |-> {}]
    /\ StdLibValue = initStdlib(StdlibFunctions)

\* the Text of a protocol.TextDocumentContentChangeEvent
ChangeTexts == {<<"a">>, <<".">>}

\* params.ContentChanges of a DidChange
ContentChanges == UNION {[1..n -> [Text : ChangeTexts]] : n \in 0..MaxEdits}

\* convChangeEvents: the TextEdit of each event (its span is 1:1-1:1)
convChangeEvents(events) == [i \in 1..Len(events) |-> [NewText |-> events[i].Text]]

\* func lastCharIsDot(ce)
lastCharIsDotOf(ce) ==
    IF Len(ce) = 0 THEN FALSE
    ELSE LET text == ce[Len(ce)].Text
         IN  Len(text) > 0 /\ text[Len(text)] = "."

\* Server.DidChange
DidChange(u, version, ce) ==
    /\ OverlayUpdate(u, version, convChangeEvents(ce))
    /\ lastCharIsDot' = lastCharIsDotOf(ce)
    /\ lastChange' = [lastChange EXCEPT ![u] = IF lastCharIsDotOf(ce) THEN "dot" ELSE "nodot"]
    /\ UNCHANGED <<complLog, resolvers, lk, StdLibValue>>

\* Server.getCurrentAST(uri): NoAST for nil
getCurrentAST(u) ==
    IF OverlayParsed(u) = Nil THEN NoAST
    ELSE IF heap[OverlayParsed(u)].Data = None THEN NoAST
    ELSE heap[OverlayParsed(u)].Data[1].Root

\* Server.Completion up to the choice of its mode: no resolver, no items;
\* isDotComplete moves the position one column back and completes fields.
\* last is history: how the latest DidChange of the document ended.
Completion(u, trigger) ==
    /\ ~crashed
    /\ Events < MaxCalls
    /\ Len(complLog) < MaxCompletions
    /\ complLog' = Append(complLog,
          [URI |-> u, TriggerCharacter |-> trigger,
           resolver |-> getCurrentAST(u) # NoAST,
           isDotComplete |-> getCurrentAST(u) # NoAST
                                /\ (lastCharIsDot \/ trigger = "."),
           last |-> lastChange[u]])
    /\ UNCHANGED <<overlayVars, clientVars, historyVars>>
    /\ UNCHANGED <<rd, fs, nwrites, imp, impLog, realCalls, vmVars, pureVars, published>>
    /\ UNCHANGED <<lastCharIsDot, lastChange, resolvers, lk, StdLibValue>>

NextCompletion ==
    \/ \E u \in URIs, t \in ReplaceTexts : Replace(u, nver[u] + 1, t)
    \/ \E u \in URIs, ce \in ContentChanges : ref[u].Open /\ DidChange(u, nver[u] + 1, ce)
    \/ \E u \in URIs : ref[u].Open /\ Close(u)
    \/ \E g \in Goroutines : getFile(g)
    \/ \E g \in Goroutines : Lock(g)
    \/ \E g \in Goroutines : Drain(g)
    \/ \E g \in Goroutines : Apply(g)
    \/ \E g \in Goroutines : ProcessFileUpdate(g)
    \/ \E g \in Goroutines : Return(g)
    \/ ProcessExit
    \/ \E u \in URIs, trigger \in {"", ".", "/"} : Completion(u, trigger)

\* both documents open, no evaluator yet, no document under analysis
InitSession ==
    /\ InitOpened
    /\ InitVM
    /\ InitAnalysis

SpecCompletion == InitSession /\ [][NextCompletion]_vars

\* C30: a Completion request without the '.' trigger character for a
\* document that has a resolver is in dotted mode exactly when the latest
\* DidChange of that document ended with '.'; the changes of other documents
\* do not switch it into or out of dotted mode.
C30_DotModeFollowsOwnDocument ==
    \A i \in 1..Len(complLog) :
        (complLog[i].resolver /\ complLog[i].TriggerCharacter # ".") =>
            (complLog[i].isDotComplete <=> complLog[i].last = "dot")

(***************************************************************************)
(* valueResolver: the resolver a query makes for its document.             *)
(***************************************************************************)
\* number of imports made through one resolver
MaxImports == 2

\* the resolver asks for an evaluator at every import
resolverAlwaysGetsVM(r) == TRUE

\* if r.vm == nil
resolverHasNoVM(r) == r.vm = Nil

\* Server.NewResolver(uri): nil, and nothing made, without a current AST.
\* used is history: the evaluator of each Import made through the resolver.
NewResolver(u) ==
    /\ ~crashed
    /\ Events < MaxCalls
    /\ getCurrentAST(u) # NoAST
    /\ resolvers' = Append(resolvers, [rootURI |-> u, rootAST |-> getCurrentAST(u),
                                       stackCache |-> {}, vm |-> Nil, used |-> <<>>])
    /\ UNCHANGED <<overlayVars, clientVars, historyVars>>
    /\ UNCHANGED <<rd, fs, nwrites, imp, impLog, realCalls, vmVars, pureVars, published>>
    /\ UNCHANGED <<lastCharIsDot, lastChange, complLog, lk, StdLibValue>>

\* valueResolver.NodeAt(loc): the stack of the node found is cached
valueResolverNodeAt(r, col) ==
    /\ r \in 1..Len(resolvers)
    /\ col \in 1..Len(resolvers[r].rootAST)
    /\ col \notin resolvers[r].stackCache
    /\ resolvers' = [resolvers EXCEPT ![r].stackCache = @ \cup {col}]
    /\ UNCHANGED <<overlayVars, clientVars, historyVars>>
    /\ UNCHANGED <<rd, fs, nwrites, imp, impLog, realCalls, vmVars, pureVars, published>>
    /\ UNCHANGED <<lastCharIsDot, lastChange, complLog, lk, StdLibValue>>

\* valueResolver.Import(from, path): r.vm = r.getvm() if there is none yet
\* (Server.getVM(r.rootURI), under s.vmlock), then r.vm.ImportAST(from, path)
valueResolverImport(r, key) ==
    /\ r \in 1..Len(resolvers)
    /\ Len(resolvers[r].used) < MaxImports
    /\ LET u == resolvers[r].rootURI
           fresh == resolverHasNoVM(resolvers[r]) /\ ~VMIsCurrent(u)
           v == IF ~resolverHasNoVM(resolvers[r]) THEN resolvers[r].vm
                ELSE IF VMIsCurrent(u) THEN vm
                ELSE Len(vmHeap) + 1
           heap1 == IF fresh
                    THEN Append(vmHeap, [from |-> u, imp |-> EmptyImporter])
                    ELSE vmHeap
       IN  /\ fresh => Len(vmHeap) < MaxVMs
           /\ vm' = IF fresh THEN v ELSE vm
           /\ vmHeap' = [heap1 EXCEPT ![v].imp = cachedImport(@, key)]
           /\ vmRet' = IF resolverHasNoVM(resolvers[r])
                       THEN [n |-> vmRet.n + 1, uri |-> u, ret |-> v]
                       ELSE vmRet
           /\ resolvers' = [resolvers EXCEPT ![r].vm = v, ![r].used = Append(@, v)]
    /\ UNCHANGED <<overlayVars, clientVars, historyVars>>
    /\ UNCHANGED <<rd, fs, nwrites, imp, impLog, realCalls, pureVars, published>>
    /\ UNCHANGED <<lastCharIsDot, lastChange, complLog, lk, StdLibValue>>

\* queries make resolvers and import through them, while Server.Evaluate and
\* the update callbacks call Server.getVM directly
NextResolver ==
    \/ \E u \in URIs : NewResolver(u)
    \/ \E r \in 1..MaxCalls, col \in 1..2 : valueResolverNodeAt(r, col)
    \/ \E r \in 1..MaxCalls, k \in ImportKeys : valueResolverImport(r, k)
    \/ \E u \in URIs : getVM(u)

SpecResolver == InitSession /\ [][NextResolver]_vars

\* C29: making a resolver and querying it without an import leave the
\* evaluator cache of the server as it is; a resolver holds no evaluator
\* until its first Import, and every Import made through it, the first and
\* the later ones, uses the one evaluator it then obtained.
C29_ResolverTakesEvaluatorLazily ==
    [][/\ (/\ resolvers' # resolvers
           /\ \A r \in 1..Len(resolvers) : resolvers'[r].used = resolvers[r].used) =>
              (vm' = vm /\ vmHeap' = vmHeap)
       /\ \A r \in 1..Len(resolvers') :
             /\ (resolvers'[r].vm = Nil) <=> (resolvers'[r].used = <<>>)
             /\ \A i \in 1..Len(resolvers'[r].used) :
                   resolvers'[r].used[i] = resolvers'[r].used[1]]_vars

\* a resolver imported twice through the evaluator it had obtained, after
\* the server had replaced that evaluator by one for another document, and
\* a second resolver was made and queried in between without an import
C29_Witness ==
    \E r, q \in 1..Len(resolvers) :
        /\ Len(resolvers[r].used) = 2
        /\ resolvers[r].vm # vm
        /\ vmHeap[vm].from # resolvers[r].rootURI
        /\ resolvers[q].rootURI # resolvers[r].rootURI
        /\ resolvers[q].stackCache # {}
        /\ resolvers[q].vm = Nil

(***************************************************************************)
(* The mutexes of the server.  A goroutine is the sequence of Lock and     *)
(* Unlock calls that its code makes, in program order; what the code does  *)
(* between them touches no mutex.                                          *)
(***************************************************************************)
\* goroutines running at the same time
MaxThreads == 2

\* Overlay.updateLock, Overlay.fileLock, Server.vmlock, OverlayImporter.jpathLock
queueLock == <<"Overlay.updateLock">>
fileLock == <<"Overlay.fileLock">>
vmlock == <<"Server.vmlock">>
jpathLock == <<"OverlayImporter.jpathLock">>
\* overlayFile.updateLock and overlayFile.entryLock of the file of u
fileUpdateLock(u) == <<"overlayFile.updateLock", u>>
entryLock(u) == <<"overlayFile.entryLock", u>>
\* vmCache.lock and the lock of the cachedImporter of the evaluator v
vmCacheLock(v) == <<"vmCache.lock", v>>
importerLock(v) == <<"cachedImporter.lock", v>>

\* l.Lock(); body; l.Unlock() (deferred or not)
Critical(l, body) == <<<<"Lock", l>>>> \o body \o <<<<"Unlock", l>>>>

\* Overlay.Parsed(u) that would take the update lock of the file as well
overlayParsedUnderUpdateLock(u) ==
    Critical(fileLock, <<>>) \o Critical(fileUpdateLock(u), Critical(entryLock(u), <<>>))

\* Overlay.Current(u) / Overlay.Parsed(u) for a file the overlay has
overlayParsedLocks(u) ==
    Critical(fileLock, <<>>) \o Critical(entryLock(u), <<>>)

\* OverlayImporter.Import: the search paths, then readURI of the candidate c
overlayImportLocks(c) ==
    Critical(jpathLock, <<>>) \o overlayParsedLocks(c)

\* what one evaluator imports: nothing, a path it has cached, or a path it
\* asks the OverlayImporter for, found at c
ImportChoices == {<<"none">>, <<"cached">>} \cup {<<"real", c>> : c \in URIs}

\* cachedImporter.Import
cachedImportLocks(v, choice) ==
    IF choice[1] = "none" THEN <<>>
    ELSE Critical(importerLock(v),
                  IF choice[1] = "cached" THEN <<>> ELSE overlayImportLocks(choice[2]))

\* Server.getVM, then vmCache.ImportAST or vmCache.Use(vm.Evaluate)
vmLocks(v, choice) ==
    Critical(vmlock, <<>>) \o Critical(vmCacheLock(v), cachedImportLocks(v, choice))

\* the callback of processFileUpdateFn: nothing (a parse error, the linter
\* off, or Close's empty function), the linter importing through the
\* resolver, or the linter and then the evaluator
CallbackChoices ==
    {<<>>} \cup {vmLocks(v, c) : v \in 1..MaxVMs - 1, c \in ImportChoices \ {<<"none">>}}
           \cup {vmLocks(v, c) \o vmLocks(v, c) : v \in 1..MaxVMs - 1,
                                                 c \in ImportChoices \ {<<"none">>}}

\* the goroutine of Overlay.update: getFile, the update lock of the file
\* (held to the end), the queue, one entryLock section per update applied,
\* the callback
updateLocks(u, applied, callback) ==
    Critical(fileLock, <<>>)
    \o Critical(fileUpdateLock(u),
                Critical(queueLock, <<>>)
                \o (IF applied THEN Critical(entryLock(u), <<>>) \o callback ELSE <<>>))

\* the goroutines of the server: the handler that queues an update, the
\* goroutine it starts, a read of the overlay, a query that makes a resolver
\* and imports through it, Server.Evaluate, and SetJPaths
Programs ==
    {Critical(queueLock, <<>>), Critical(jpathLock, <<>>)}
    \cup {updateLocks(u, FALSE, <<>>) : u \in URIs}
    \cup {updateLocks(u, TRUE, cb) : u \in URIs, cb \in CallbackChoices}
    \cup {overlayParsedLocks(u) : u \in URIs}
    \cup {overlayParsedLocks(u) \o vmLocks(v, c) :
             u \in URIs, v \in 1..MaxVMs - 1, c \in ImportChoices \ {<<"none">>}}
    \cup {Critical(vmlock, <<>>) \o overlayParsedLocks(u)
             \o Critical(vmCacheLock(v), cachedImportLocks(v, c)) :
             u \in URIs, v \in 1..MaxVMs - 1, c \in ImportChoices}

\* the mutexes that goroutine t holds
HeldBy(t) == {h[1] : h \in {x \in lk.held : x[2] = t}}

\* a goroutine starts
StartThread(prog) ==
    /\ Len(lk.threads) < MaxThreads
    /\ lk' = [lk EXCEPT !.threads = Append(@, [prog |-> prog, pc |-> 1])]
    /\ UNCHANGED <<overlayVars, clientVars, historyVars>>
    /\ UNCHANGED <<rd, fs, nwrites, imp, impLog, realCalls, vmVars, pureVars, published>>
    /\ UNCHANGED <<lastCharIsDot, lastChange, complLog, resolvers, StdLibValue>>

\* sync.Mutex.Lock: returns when no goroutine, the caller included, holds
\* the mutex
mutexLock(t) ==
    /\ t \in 1..Len(lk.threads)
    /\ lk.threads[t].pc <= Len(lk.threads[t].prog)
    /\ LET op == lk.threads[t].prog[lk.threads[t].pc] IN
       /\ op[1] = "Lock"
       /\ \A h \in lk.held : h[1] # op[2]
       /\ lk' = [lk EXCEPT !.threads[t].pc = @ + 1,
                           !.held = @ \cup {<<op[2], t>>}]
    /\ UNCHANGED <<overlayVars, clientVars, historyVars>>
    /\ UNCHANGED <<rd, fs, nwrites, imp, impLog, realCalls, vmVars, pureVars, published>>
    /\ UNCHANGED <<lastCharIsDot, lastChange, complLog, resolvers, StdLibValue>>

\* sync.Mutex.Unlock; a goroutine that has made its last call ends
mutexUnlock(t) ==
    /\ t \in 1..Len(lk.threads)
    /\ lk.threads[t].pc <= Len(lk.threads[t].prog)
    /\ LET op == lk.threads[t].prog[lk.threads[t].pc]
           others == SelectSeq(lk.threads, LAMBDA x : x # lk.threads[t])
       IN
       /\ op[1] = "Unlock"
       /\ IF lk.threads[t].pc < Len(lk.threads[t].prog)
          THEN lk' = [lk EXCEPT !.threads[t].pc = @ + 1,
                                !.held = @ \ {<<op[2], t>>}]
          ELSE lk' = [lk EXCEPT
                        !.threads = [i \in 1..(Len(@) - 1) |->
                                        IF i < t THEN @[i] ELSE @[i + 1]],
                        !.held = {IF h[2] > t THEN <<h[1], h[2] - 1>> ELSE h :
                                     h \in @ \ {<<op[2], t>>}}]
    /\ UNCHANGED <<overlayVars, clientVars, historyVars>>
    /\ UNCHANGED <<rd, fs, nwrites, imp, impLog, realCalls, vmVars, pureVars, published>>
    /\ UNCHANGED <<lastCharIsDot, lastChange, complLog, resolvers, StdLibValue>>

NextLocks ==
    \/ \E prog \in Programs : StartThread(prog)
    \/ \E t \in 1..MaxThreads : mutexLock(t)
    \/ \E t \in 1..MaxThreads : mutexUnlock(t)

SpecLocks == Init /\ [][NextLocks]_vars

\* the mutexes a goroutine holds when it makes call i of its program
HeldAt(prog, i) ==
    {prog[j][2] : j \in {k \in 1..(i - 1) :
        /\ prog[k][1] = "Lock"
        /\ \A m \in (k + 1)..(i - 1) : prog[m] # <<"Unlock", prog[k][2]>>}}

\* the pairs (held, taken) of the Lock calls of the code
LockOrder ==
    UNION {UNION {{<<h, prog[i][2]>> : h \in HeldAt(prog, i)} :
                     i \in {k \in 1..Len(prog) : prog[k][1] = "Lock"}} :
              prog \in Programs}

\* goroutine t is in Lock and the mutex is held by goroutine w
WaitsFor(t, w) ==
    /\ lk.threads[t].prog[lk.threads[t].pc][1] = "Lock"
    /\ <<lk.threads[t].prog[lk.threads[t].pc][2], w>> \in lk.held

\* C28: no goroutines wait for one another's mutexes in a circle (one
\* waiting for a mutex it holds itself included); what a goroutine holds is
\* what its code took and has not released, so every mutex taken while
\* another is held is a pair of the lock order; and the lock order has no
\* cycle.
C28_NoDeadlockNoCyclicLockOrder ==
    /\ \A S \in SUBSET (1..Len(lk.threads)) :
          S # {} => \E t \in S : \A w \in S : ~WaitsFor(t, w)
    /\ \A t \in 1..Len(lk.threads) :
          /\ HeldBy(t) = HeldAt(lk.threads[t].prog, lk.threads[t].pc)
          /\ lk.threads[t].prog[lk.threads[t].pc][1] = "Lock"
                 => \A h \in HeldBy(t) :
                       <<h, lk.threads[t].prog[lk.threads[t].pc][2]>> \in LockOrder
    /\ \A L \in SUBSET {p[1] : p \in LockOrder} :
          L # {} => \E a \in L : \A b \in L : <<a, b>> \notin LockOrder

\* the callback of one file imports the other file under the update lock of
\* its own file, the lock of the evaluator and the lock of its importer,
\* while the goroutine of the other file waits for the evaluator
C28_Witness ==
    \E t, w \in 1..Len(lk.threads) :
        /\ WaitsFor(w, t)
        /\ fileUpdateLock("u1") \in HeldBy(t)
        /\ fileUpdateLock("u2") \in HeldBy(w)
        /\ importerLock(1) \in HeldBy(t)
        /\ entryLock("u2") \in HeldBy(t)

(***************************************************************************)
(* Server.Completion, the completion of plain variables: one item for      *)
(* every variable visible at the node under the cursor.  The response      *)
(* lists the items in the order of a Go map iteration; the client orders   *)
(* them by SortText, compared byte by byte.                                *)
(***************************************************************************)
\* the nesting of the documents completed in
MaxScopes == 3

\* the bytes of a name
Bytes(name) ==
    CASE name = "$" -> <<36>>
      [] name = "a" -> <<97>>
      [] name = "b" -> <<98>>
      [] name = "self" -> <<115, 101, 108, 102>>
      [] name = "std" -> <<115, 116, 100>>

\* strconv: the decimal digits of n >= 0
RECURSIVE Digits(_)
Digits(n) == IF n < 10 THEN <<48 + n>> ELSE Digits(n \div 10) \o <<48 + (n % 10)>>

\* fmt.Sprintf("%3d_%s", pos, name): the number padded with spaces on the
\* left to three bytes, or longer if it has more digits
Sprintf3d(pos, name) ==
    LET d == Digits(pos)
    IN  [i \in 1..(IF Len(d) < 3 THEN 3 - Len(d) ELSE 0) |-> 32] \o d \o <<95>> \o Bytes(name)

\* a < b for strings: at the first byte that differs, or a a proper prefix of b
StringLess(a, b) ==
    \E k \in 1..(Len(a) + 1) :
        /\ k <= Len(b)
        /\ \A i \in 1..(k - 1) : a[i] = b[i]
        /\ k > Len(a) \/ a[k] < b[k]

\* the names a document of CompletionTrees can bind
CompletionNames == {"std", "self", "$", "a", "b"}

\* the index in the stack of the node that introduces the binding of name
\* that StackVars returns: the enclosing Local or Function nearest to the
\* cursor that binds it, the object nearest to the cursor for self, the
\* object farthest from it for "$"; std is bound outside the document
ScopeOf(file, stk, name) ==
    LET objs == SelectSeq(Indexes(Len(stk)),
                          LAMBDA i : RefNode(Ref(file, stk[i])).kind = "DesugaredObject")
    IN  CASE name = "std" -> 0 - 1
          [] name = "self" -> objs[Len(objs)] - 1
          [] name = "$" -> objs[1] - 1
          [] OTHER -> stackVarsGet(file, stk, name)[1].StackPos

\* for name, v := range resolver.Vars(node): the items, each with the scope
\* of its binding (history)
variableItems(file, stk) ==
    {LET v == stackVarsGet(file, stk, name)[1]
     IN  [Label |-> name,
          SortText |-> IF v.Node # None THEN Sprintf3d(v.StackPos, name)
                       ELSE Sprintf3d(0, name),
          scope |-> ScopeOf(file, stk, name)] :
       name \in {n \in CompletionNames : stackVarsGet(file, stk, n) # None}}

\* scopes around an expression: a local, a function of one parameter, an
\* object with one field
ScopesOver(A) ==
    {astLocal(x, astLiteralNumber, e) : x \in {"a", "b"}, e \in A}
    \cup {astFunction(<<astParameter(x, "any", 0)>>, <<>>, e) : x \in {"a", "b"}, e \in A}
    \cup {astDesugaredObject(astLiteralString("f"), e) : e \in A}

RECURSIVE NestedScopes(_)
NestedScopes(n) ==
    IF n = 0 THEN {astLiteralNumber, astVar("a")}
    ELSE NestedScopes(n - 1) \cup ScopesOver(NestedScopes(n - 1))

CompletionTrees == NestedScopes(MaxScopes)

InitPlainCompletion ==
    /\ InitServer
    /\ InitVM
    /\ rootAST \in CompletionTrees
    /\ importAST = [f \in {"lib"} |-> None]
    /\ call = [fn |-> "none"]

\* Server.Completion at a column of the document, no trigger character and
\* lastCharIsDot false; the documents have no import, no '+' and no call, so
\* the request is for plain variables
RunCompletion(col) ==
    LET stack == StackAtLoc(rootAST, Location(col))
    IN  /\ call' = [fn |-> "Completion", col |-> col, stack |-> stack,
                    Items |-> IF stack = <<>> THEN {}
                              ELSE variableItems("main", stack)]
        /\ UNCHANGED <<serverVars, rootAST, importAST>>

NextPlainCompletion == \E col \in 0..(Width(rootAST) + 2) : RunCompletion(col)

SpecPlainCompletion == InitPlainCompletion /\ [][NextPlainCompletion]_vars

\* C21: of the items of a completion of plain variables, an item whose
\* binding is introduced by a scope nearer to the cursor sorts before every
\* item whose binding is introduced by a scope around that one, and items of
\* one scope sort by name.
C21_InnermostBindingsSortFirst ==
    call.fn = "Completion" =>
        \A i, j \in call.Items :
            (\/ i.scope > j.scope
             \/ i.scope = j.scope /\ StringLess(Bytes(i.Label), Bytes(j.Label)))
                => StringLess(i.SortText, j.SortText)

(***************************************************************************)
(* analysis.NodeToValue of the version with type hints (typehint.go), for  *)
(* what it does to StdLibValue.  A *Value is StdLibValue itself (ptr       *)
(* "std") or a Value the call allocated (ptr "new"); std is the Object of  *)
(* StdLibValue as the calls so far have left it.  The documents are made   *)
(* of literals, variables, locals, objects, '+' and indexes by a string.   *)
(***************************************************************************)
\* the queries are made while StdLibValue has fewer supers than this
MaxSupers == 3

\* &Value{...}: a Value that the call allocates
NewValue(type, object, std) ==
    [val |-> [ptr |-> "new", ValueType |-> type, Object |-> object],
     std |-> std, panic |-> FALSE]

\* a nil pointer is dereferenced: the call does not return
Panics(std) == [val |-> [ptr |-> "nil", ValueType |-> "any", Object |-> None],
                std |-> std, panic |-> TRUE]

\* objectToValue(node): FieldMap maps the name of a field to its body
objectToValueHint(nref, std) ==
    LET t == RefNode(nref)
        named == {i \in 1..Len(t.kids) :
                     t.roles[i] = "fieldname" /\ t.kids[i].kind = "LiteralString"}
    IN  NewValue("object",
                 Some([FieldMap |-> [n \in {t.kids[i].id : i \in named} |->
                                        Kid(nref, 1 + CHOOSE i \in named : t.kids[i].id = n)],
                       AllFieldsKnown |-> \A i \in 1..Len(t.kids) :
                                             t.roles[i] = "fieldname" => i \in named,
                       Supers |-> <<>>]),
                 std)

\* rhs.Type.Object.Supers = append(rhs.Type.Object.Supers, lhs); return rhs:
\* the append is to the Object rhs points at
appendSuper(lhs, rhs) ==
    IF rhs.val.ptr = "std"
    THEN [rhs EXCEPT !.std.Supers = Append(@, lhs.val.ptr)]
    ELSE [rhs EXCEPT !.val.Object = Some([@[1] EXCEPT !.Supers = Append(@, lhs.val.ptr)])]

\* NodeToValue(node, resolver) with StdLibValue as it is before the call:
\* the Value returned and StdLibValue after the call
RECURSIVE typehintNodeToValue(_, _)
typehintNodeToValue(nref, std) ==
    LET t == RefNode(nref)
        default == NewValue(simpleToValueType(t)[1], None, std)
    IN  IF simpleToValueType(t)[2] THEN default
        ELSE CASE t.kind \in {"LiteralString", "LiteralNumber", "LiteralBoolean"} -> default
          [] t.kind = "Local" ->
                IF RoleKids(t, "bind") = <<>> THEN default
                ELSE typehintNodeToValue(Kid(nref, RoleKids(t, "bind")[1]), std)
          [] t.kind = "Var" ->
                IF t.id = "std"
                THEN [val |-> [ptr |-> "std", ValueType |-> "object",
                               Object |-> Some([FieldMap |-> std.FieldMap,
                                                AllFieldsKnown |-> TRUE,
                                                Supers |-> std.Supers])],
                      std |-> std, panic |-> FALSE]
                ELSE IF t.id = "$std" THEN default
                ELSE LET v == resolverVarsGet(nref, t.id)
                     IN  IF v # None /\ v[1].Node # None
                         THEN typehintNodeToValue(v[1].Node[1], std)
                         ELSE default
          [] t.kind = "Index" /\ t.kids[2].kind = "LiteralString" ->
                With(typehintNodeToValue(Kid(nref, 1), std),
                     LAMBDA lhs :
                        IF lhs.panic THEN lhs
                        ELSE IF lhs.val.ptr = "std"
                        THEN IF t.kids[2].id \in DOMAIN lhs.std.FieldMap
                             THEN NewValue("function", None, lhs.std)
                             ELSE Panics(lhs.std)
                        ELSE IF lhs.val.Object # None
                                /\ t.kids[2].id \in DOMAIN lhs.val.Object[1].FieldMap
                        THEN typehintNodeToValue(lhs.val.Object[1].FieldMap[t.kids[2].id],
                                                 lhs.std)
                        ELSE NewValue(simpleToValueType(t)[1], None, lhs.std))
          [] t.kind = "Binary" ->
                IF t.id # "+" THEN default
                ELSE With(typehintNodeToValue(Kid(nref, 1), std),
                          LAMBDA lhs :
                             IF lhs.panic THEN lhs
                             ELSE With(typehintNodeToValue(Kid(nref, 2), lhs.std),
                                       LAMBDA rhs :
                                          IF rhs.panic THEN rhs
                                          ELSE IF lhs.val.ValueType = "object"
                                                  /\ rhs.val.Object # None
                                          THEN appendSuper(lhs, rhs)
                                          ELSE NewValue(simpleToValueType(t)[1], None,
                                                        rhs.std)))
          [] t.kind = "DesugaredObject" -> objectToValueHint(nref, std)

\* expressions that do not mention x
StdBinds ==
    LET obj == astDesugaredObject(astLiteralString("f"), astLiteralNumber)
    IN  {astVar("std"), obj, astLiteralNumber,
         astBinary("+", obj, astVar("std")), astBinary("+", astVar("std"), obj)}

\* expressions in the scope of a local x
StdExprs ==
    LET leaves == {astVar("std"), astVar("x"), astLiteralNumber,
                   astDesugaredObject(astLiteralString("f"), astLiteralNumber)}
    IN  leaves
        \cup {astBinary("+", a, b) : a, b \in leaves}
        \cup {astIndex(a, astLiteralString(n)) : a \in leaves, n \in {"f", "all"}}

\* local x = b; e
StdTrees == {astLocal("x", b, e) : b \in StdBinds, e \in StdExprs}

InitStd ==
    /\ InitServer
    /\ InitVM
    /\ rootAST \in StdTrees
    /\ importAST = [f \in {"lib"} |-> None]
    /\ call = [fn |-> "none"]

\* a hover, lint or completion query: NodeToValue of a node of the document;
\* a panic ends the process
RunTypehintNodeToValue(path) ==
    /\ call.fn # "panic"
    /\ Len(StdLibValue.Supers) < MaxSupers
    /\ With(typehintNodeToValue(Ref("main", path), StdLibValue),
            LAMBDA r :
               /\ call' = [fn |-> IF r.panic THEN "panic" ELSE "NodeToValue",
                           node |-> path, res |-> r.val]
               /\ StdLibValue' = r.std)
    /\ UNCHANGED <<overlayVars, clientVars, historyVars>>
    /\ UNCHANGED <<rd, fs, nwrites, imp, impLog, realCalls, vmVars, published>>
    /\ UNCHANGED <<lastCharIsDot, lastChange, complLog, resolvers, lk>>
    /\ UNCHANGED <<rootAST, importAST>>

NextStd == \E p \in Paths(rootAST) : RunTypehintNodeToValue(p)

SpecStd == InitStd /\ [][NextStd]_vars

TypeInfo(vt) ==
    [ValueType |-> vt, Union |-> <<>>, Element |-> None, Function |-> None,
     TypeParam |-> "", TypeHintError |-> None]

hintTypeParam(name) == [TypeInfo("typeparam") EXCEPT !.TypeParam = name]
hintElement(vt, elem) == [TypeInfo(vt) EXCEPT !.Element = Some(elem)]
hintUnion(members) == [TypeInfo("union") EXCEPT !.Union = members]
\* a function type with one parameter x
hintFunction(paramHint, returnHint) ==
    [TypeInfo("function") EXCEPT
        !.Function = Some([Params |-> <<[Name |-> "x", TypeHint |-> paramHint]>>,
                           ReturnHint |-> returnHint])]
\* a function type without parameters
hintFunction0(returnHint) ==
    [TypeInfo("function") EXCEPT
        !.Function = Some([Params |-> <<>>, ReturnHint |-> returnHint])]
\* &TypeInfo{TypeHintError: err}
hintError(err) == [TypeInfo("any") EXCEPT !.TypeHintError = Some(err)]

\* strings.Join(parts, sep)
RECURSIVE JoinTokens(_, _)
JoinTokens(parts, sep) ==
    IF parts = <<>> THEN <<>>
    ELSE IF Len(parts) = 1 THEN parts[1]
    ELSE parts[1] \o <<sep>> \o JoinTokens(Tail(parts), sep)

\* TypeInfo.String(), as the sequence of its tokens
RECURSIVE TypeInfoString(_)
TypeInfoString(t) ==
    IF t.TypeHintError # None THEN <<"error", t.TypeHintError[1]>>
    ELSE CASE t.ValueType \in {"any", "string", "null", "boolean", "number"} ->
                <<t.ValueType>>
           [] t.ValueType \in {"array", "object"} ->
                IF t.Element # None
                THEN <<t.ValueType, "[">> \o TypeInfoString(t.Element[1]) \o <<"]">>
                ELSE <<t.ValueType>>
           [] t.ValueType = "typeparam" -> <<t.TypeParam>>
           [] t.ValueType = "union" ->
                JoinTokens([i \in 1..Len(t.Union) |-> TypeInfoString(t.Union[i])], "|")
           [] t.ValueType = "function" ->
                IF t.Function = None THEN <<"function">>
                ELSE <<"function", "(">>
                     \o JoinTokens([i \in 1..Len(t.Function[1].Params) |->
                            IF t.Function[1].Params[i].TypeHint = None
                            THEN <<t.Function[1].Params[i].Name>>
                            ELSE <<t.Function[1].Params[i].Name, ":">>
                                 \o TypeInfoString(t.Function[1].Params[i].TypeHint[1])],
                            ",")
                     \o <<")">>
                     \o (IF t.Function[1].ReturnHint = None THEN <<>>
                         ELSE <<"->">> \o TypeInfoString(t.Function[1].ReturnHint[1]))

\* (*TypeInfo).hasTypeParam()
RECURSIVE hasTypeParam(_)
hasTypeParam(th) ==
    IF th = None THEN FALSE
    ELSE \/ th[1].ValueType = "typeparam"
         \/ \E i \in 1..Len(th[1].Union) : hasTypeParam(Some(th[1].Union[i]))
         \/ hasTypeParam(th[1].Element)
         \/ /\ th[1].Function # None
            /\ \/ hasTypeParam(th[1].Function[1].ReturnHint)
               \/ \E i \in 1..Len(th[1].Function[1].Params) :
                     hasTypeParam(th[1].Function[1].Params[i].TypeHint)

\* for k, v := range from { solutions[k] = v }
Override(solutions, from) ==
    [k \in DOMAIN solutions \cup DOMAIN from |->
        IF k \in DOMAIN from THEN from[k] ELSE solutions[k]]

\* a map of solutions, or the panic of a nil dereference or of an index out
\* of range
Solved(m) == [panic |-> FALSE, m |-> m]
SolvePanics == [panic |-> TRUE, m |-> <<>>]

\* solveTypeParam(caller, param, resolver); caller and param are not nil
RECURSIVE solveTypeParam(_, _)
solveTypeParam(caller, param) ==
    LET RECURSIVE params(_, _)
        \* the loop over param.Function.Params from index i on
        params(i, solutions) ==
            IF i > Len(param.Function[1].Params) THEN Solved(solutions)
            ELSE IF i > Len(caller.Function[1].Params) THEN SolvePanics
            ELSE IF caller.Function[1].Params[i].TypeHint = None
            THEN params(i + 1, solutions)
            ELSE IF param.Function[1].Params[i].TypeHint = None THEN SolvePanics
            ELSE With(solveTypeParam(caller.Function[1].Params[i].TypeHint[1],
                                     param.Function[1].Params[i].TypeHint[1]),
                      LAMBDA s : IF s.panic THEN s
                                 ELSE params(i + 1, Override(solutions, s.m)))
    IN  IF param.ValueType = "typeparam"
        THEN Solved([k \in {param.TypeParam} |-> caller])
        ELSE IF param.ValueType # caller.ValueType THEN Solved(<<>>)
        ELSE CASE param.ValueType \in {"object", "array"} ->
                    IF caller.Element = None \/ param.Element = None THEN Solved(<<>>)
                    ELSE solveTypeParam(caller.Element[1], param.Element[1])
               [] param.ValueType = "function" ->
                    IF caller.Function = None \/ param.Function = None THEN SolvePanics
                    ELSE IF caller.Function[1].ReturnHint # None
                            /\ param.Function[1].ReturnHint # None
                    THEN With(solveTypeParam(caller.Function[1].ReturnHint[1],
                                             param.Function[1].ReturnHint[1]),
                              LAMBDA s : IF s.panic THEN s ELSE params(1, s.m))
                    ELSE params(1, <<>>)
               [] OTHER -> Solved(<<>>)

\* inferTypeParameters(caller, target, resolver): the loop over the
\* positional arguments from index i on; args[i] is NodeToValue of the
\* argument.  The result is the solutions, an error, or a panic.
RECURSIVE inferTypeParameters(_, _, _, _)
inferTypeParameters(args, fnParams, i, solutions) ==
    IF i > Len(args) THEN [err |-> None, panic |-> FALSE, m |-> solutions]
    ELSE IF i > Len(fnParams)
    THEN [err |-> Some("too many arguments"), panic |-> FALSE, m |-> <<>>]
    ELSE IF ~hasTypeParam(fnParams[i].TypeHint)
    THEN inferTypeParameters(args, fnParams, i + 1, solutions)
    ELSE With(solveTypeParam(IF args[i].TypeHint # None THEN args[i].TypeHint[1]
                             ELSE args[i].Type,
                             fnParams[i].TypeHint[1]),
              LAMBDA soln :
                 IF soln.panic THEN [err |-> None, panic |-> TRUE, m |-> <<>>]
                 ELSE IF \E k \in DOMAIN soln.m \cap DOMAIN solutions :
                            TypeInfoString(solutions[k]) # TypeInfoString(soln.m[k])
                 THEN [err |-> Some("conflicting inferred types"), panic |-> FALSE,
                       m |-> <<>>]
                 ELSE inferTypeParameters(args, fnParams, i + 1,
                                          Override(soln.m, solutions)))

\* solveTypeParameterInfo(th, typeparams, resolver): the type, or an error
RECURSIVE solveTypeParameterInfo(_, _)
solveTypeParameterInfo(th, typeparams) ==
    LET unresolved == [err |-> Some("unable to resolve type parameter"), t |-> th]
        RECURSIVE params(_, _)
        \* the loop over th.Function.Params from index i on, then the return hint
        params(i, copyFn) ==
            IF i > Len(th.Function[1].Params)
            THEN IF copyFn.ReturnHint = None
                 THEN [err |-> None, t |-> [th EXCEPT !.Function = Some(copyFn)]]
                 ELSE With(solveTypeParameterInfo(copyFn.ReturnHint[1], typeparams),
                           LAMBDA s :
                              IF s.err # None THEN s
                              ELSE [err |-> None,
                                    t |-> [th EXCEPT !.Function =
                                             Some([copyFn EXCEPT !.ReturnHint = Some(s.t)])]])
            ELSE IF th.Function[1].Params[i].TypeHint = None THEN params(i + 1, copyFn)
            ELSE With(solveTypeParameterInfo(th.Function[1].Params[i].TypeHint[1], typeparams),
                      LAMBDA s :
                         IF s.err # None THEN s
                         ELSE params(i + 1, [copyFn EXCEPT !.Params[i].TypeHint = Some(s.t)]))
    IN  CASE th.ValueType = "typeparam" ->
                IF th.TypeParam \in DOMAIN typeparams
                THEN [err |-> None, t |-> typeparams[th.TypeParam]]
                ELSE unresolved
          [] th.ValueType \in {"object", "array"} ->
                IF th.Element = None THEN [err |-> None, t |-> th]
                ELSE With(solveTypeParameterInfo(th.Element[1], typeparams),
                          LAMBDA s : IF s.err # None THEN s
                                     ELSE [err |-> None,
                                           t |-> [th EXCEPT !.Element = Some(s.t)]])
          [] th.ValueType = "function" -> params(1, th.Function[1])
          [] OTHER -> [err |-> None, t |-> th]

\* NodeToValue, case *ast.Apply, from rh := targfn.Type.Function.ReturnHint
\* on: val.TypeHint (None if there is no hint), or "panic"
applyTypeHint(fnParams, args, rh) ==
    IF rh = None THEN [panic |-> FALSE, TypeHint |-> None]
    ELSE IF ~hasTypeParam(rh) THEN [panic |-> FALSE, TypeHint |-> rh]
    ELSE With(inferTypeParameters(args, fnParams, 1, <<>>),
              LAMBDA inf :
                 IF inf.panic THEN [panic |-> TRUE, TypeHint |-> None]
                 ELSE IF inf.err # None
                 THEN [panic |-> FALSE, TypeHint |-> Some(hintError(inf.err[1]))]
                 ELSE With(solveTypeParameterInfo(rh[1], inf.m),
                           LAMBDA s :
                              [panic |-> FALSE,
                               TypeHint |-> IF s.err # None THEN Some(hintError(s.err[1]))
                                            ELSE Some(s.t)]))

\* the declared types of the parameters of the function called
ParamHints ==
    {Some(hintTypeParam("T")), Some(hintElement("array", hintTypeParam("T"))),
     Some(hintFunction(Some(hintTypeParam("T")), Some(hintTypeParam("T")))),
     Some(TypeInfo("number")), None}

\* the values of the arguments: with a type hint, or with an inferred type only
ArgValues ==
    {[TypeHint |-> Some(t), Type |-> TypeInfo(t.ValueType)] :
        t \in {TypeInfo("number"), TypeInfo("string"),
               hintElement("array", TypeInfo("number")),
               hintFunction(Some(TypeInfo("number")), Some(TypeInfo("number"))),
               hintFunction(Some(TypeInfo("number")), Some(TypeInfo("string"))),
               hintFunction0(Some(TypeInfo("number")))}}
    \cup {[TypeHint |-> None, Type |-> TypeInfo(vt)] : vt \in {"number", "array"}}

\* the declared return types
ReturnHints ==
    {None, Some(TypeInfo("number")), Some(hintTypeParam("T")),
     Some(hintElement("array", hintTypeParam("T"))),
     Some(hintUnion(<<hintTypeParam("T"), TypeInfo("null")>>)),
     Some(hintTypeParam("K"))}

\* a call of a function of one or two parameters with up to two arguments
InitApply ==
    /\ InitServer
    /\ InitVM
    /\ rootAST = [kind |-> "LiteralNull", id |-> "null", kids |-> <<>>, roles |-> <<>>,
                  names |-> <<>>, params |-> <<>>]
    /\ importAST = [f \in {"lib"} |-> None]
    /\ \E np \in 1..2, na \in 0..2 :
          \E ps \in [1..np -> ParamHints], as \in [1..na -> ArgValues], rh \in ReturnHints :
             call = [fn |-> "none",
                     Params |-> [i \in 1..np |-> [Name |-> "x", TypeHint |-> ps[i]]],
                     Args |-> as, ReturnHint |-> rh]

\* NodeToValue of the call
RunApply ==
    /\ call.fn = "none"
    /\ call' = [call EXCEPT !.fn = "Apply"] @@
               [res |-> applyTypeHint(call.Params, call.Args, call.ReturnHint)]
    /\ UNCHANGED <<serverVars, rootAST, importAST>>

NextApply == RunApply

SpecApply == InitApply /\ [][NextApply]_vars

\* every solution that unifying the type of an argument with the declared
\* type of its parameter yields, at any position: pairs (type parameter, type)
RECURSIVE Unify(_, _)
Unify(caller, param) ==
    IF param.ValueType = "typeparam" THEN {<<param.TypeParam, caller>>}
    ELSE IF param.ValueType # caller.ValueType THEN {}
    ELSE (IF caller.Element # None /\ param.Element # None
          THEN Unify(caller.Element[1], param.Element[1]) ELSE {})
         \cup
         (IF caller.Function # None /\ param.Function # None
          THEN (IF caller.Function[1].ReturnHint # None /\ param.Function[1].ReturnHint # None
                THEN Unify(caller.Function[1].ReturnHint[1], param.Function[1].ReturnHint[1])
                ELSE {})
               \cup UNION {Unify(caller.Function[1].Params[i].TypeHint[1],
                                 param.Function[1].Params[i].TypeHint[1]) :
                             i \in {j \in 1..Len(param.Function[1].Params) :
                                       /\ j <= Len(caller.Function[1].Params)
                                       /\ caller.Function[1].Params[j].TypeHint # None
                                       /\ param.Function[1].Params[j].TypeHint # None}}
          ELSE {})

\* the solutions of the call
CallSolutions ==
    UNION {Unify(IF call.Args[i].TypeHint # None THEN call.Args[i].TypeHint[1]
                 ELSE call.Args[i].Type,
                 call.Params[i].TypeHint[1]) :
             i \in {j \in 1..Len(call.Args) :
                       j <= Len(call.Params) /\ hasTypeParam(call.Params[j].TypeHint)}}

\* two solutions of one type parameter differ in their text
Conflicting(sols) ==
    \E a, b \in sols : a[1] = b[1] /\ TypeInfoString(a[2]) # TypeInfoString(b[2])

\* the type parameters of a type
RECURSIVE TypeParamsOf(_)
TypeParamsOf(t) ==
    (IF t.ValueType = "typeparam" THEN {t.TypeParam} ELSE {})
    \cup UNION {TypeParamsOf(t.Union[i]) : i \in 1..Len(t.Union)}
    \cup (IF t.Element # None THEN TypeParamsOf(t.Element[1]) ELSE {})
    \cup (IF t.Function # None
          THEN (IF t.Function[1].ReturnHint # None
                THEN TypeParamsOf(t.Function[1].ReturnHint[1]) ELSE {})
               \cup UNION {TypeParamsOf(t.Function[1].Params[i].TypeHint[1]) :
                             i \in {j \in 1..Len(t.Function[1].Params) :
                                       t.Function[1].Params[j].TypeHint # None}}
          ELSE {})

\* the type with every type parameter replaced by its solution
RECURSIVE Substituted(_, _)
Substituted(t, sols) ==
    IF t.ValueType = "typeparam"
    THEN (CHOOSE a \in sols : a[1] = t.TypeParam)[2]
    ELSE [t EXCEPT
            !.Union = [i \in 1..Len(t.Union) |-> Substituted(t.Union[i], sols)],
            !.Element = IF @ = None THEN None ELSE Some(Substituted(@[1], sols)),
            !.Function =
               IF @ = None THEN None
               ELSE Some([Params |-> [i \in 1..Len(@[1].Params) |->
                             [Name |-> @[1].Params[i].Name,
                              TypeHint |-> IF @[1].Params[i].TypeHint = None THEN None
                                           ELSE Some(Substituted(@[1].Params[i].TypeHint[1],
                                                                 sols))]],
                          ReturnHint |-> IF @[1].ReturnHint = None THEN None
                                         ELSE Some(Substituted(@[1].ReturnHint[1], sols))])]

\* C23: for a call with no more arguments than parameters whose declared
\* return hint has a type parameter: if the solutions of one type parameter
\* differ in text, wherever they come from, the return hint of the call is
\* the error of conflicting inferences; otherwise it is the declared hint
\* with every type parameter replaced by its solution, or an error if one of
\* them has no solution.
C23_ConflictOrSubstitutedOrUnresolved ==
    (/\ call.fn = "Apply"
     /\ Len(call.Args) <= Len(call.Params)
     /\ hasTypeParam(call.ReturnHint))
    => /\ ~call.res.panic
       /\ call.res.TypeHint # None
       /\ IF Conflicting(CallSolutions)
          THEN call.res.TypeHint[1].TypeHintError = Some("conflicting inferred types")
          ELSE IF TypeParamsOf(call.ReturnHint[1]) \subseteq {a[1] : a \in CallSolutions}
          THEN TypeInfoString(call.res.TypeHint[1])
                  = TypeInfoString(Substituted(call.ReturnHint[1], CallSolutions))
          ELSE call.res.TypeHint[1].TypeHintError # None

====
